---- MODULE Spec2Model ----
(***************************************************************************)
(* State-machine model of the kubejs-utils scripts.                        *)
(*                                                                         *)
(* C4 device sessions: startup_scripts/C4.js (item callbacks, snapshot     *)
(* validation) together with the server-side handlers (block-broken,       *)
(* C4UseStarted, C4Activated).  Two iterations of the C4Activated handler  *)
(* live in the repository; `iteration` says which one is bound on the bus. *)
(*                                                                         *)
(* Lengths and angles are fixed-point integers in units of 0.001, so that  *)
(* POS_TOLERANCE (0.01) is 10 and ANGLE_TOLERANCE (0.001) is 1.            *)
(*                                                                         *)
(* Spec             the device sessions, both ways a use can complete      *)
(* SpecTimerDriven  the same, completion by the re-validation timer only   *)
(* SpecValidate     shouldActivateC4 applied to drawn inputs               *)
(* SpecSched        the host scheduler on its own                          *)
(* SpecBus          the event bus on its own: register and emit            *)
(* SpecData         the data bus on its own: export, import, hasExport,    *)
(*                  listExports                                            *)
(* SpecArea         area control (server_scripts/areacontrol.js)           *)
(* SpecUnbound      the device sessions when the bus may be missing at     *)
(*                  server start                                           *)
(* SpecAreaLive     area control over unbounded time, with the host        *)
(*                  ticking every online player for ever                   *)
(* SpecShared       the part_000 handlers with two players on one block    *)
(* SpecAreaFirst    configuration and bounds in the iteration that opens   *)
(*                  areacontrol.js                                         *)
(* SpecCooldown     area control with the item-use-finished events         *)
(***************************************************************************)
EXTENDS Integers, Sequences, FiniteSets, TLC

VARIABLES
    iteration,          \* which iteration's handlers get registered
    online,             \* the players that are on the server
    started,            \* ServerStarted / ServerEvents.loaded has run
    gameTime,           \* level.levelData.gameTime, the tick counter
    ticking,            \* the host began this tick's work: inputs are closed
    lastFired,          \* id of the last timer fired in this tick (0: none)
    eventMap,           \* eventBus.eventMap: topic -> bound handler
    player,             \* host state of each player: pos, angle, held item
    lastPlayerInfoMap,  \* snapshot per player uuid (NoInfo = undefined)
    using,              \* host: is the player using the item, and since when
    cooldownUntil,      \* host: item cooldown of c4_item per player
    c4Blocks,           \* world: positions that hold a kubejs:c4 block
    toExplosionC4Map,   \* explosion record per block position
    timers,             \* scheduler: registered timers, in registration order
    nextId,             \* scheduler: next timer handle
    devices,            \* history: one record per placed device
    sess,               \* history: the current/last arming session per player
    intent,             \* history: outcome of the last arm-intent
    inputs,             \* number of external inputs consumed
    told,               \* history: number of "defused" notifications sent
    probes,             \* history: one record per timer of the scheduler study
    checked,            \* outcome of the validator study ("unchecked" before)
    invoked,            \* history: one record per handler invocation of the bus
    emits,              \* history: one record per emit call, with its return
    registered,         \* history: one record per register call
    dataMap,            \* dataBus: the Map of exports, in insertion order
    dataLog,            \* history: one record per call of the data bus
    config,             \* areacontrol: the configuration object
    bounds,             \* areacontrol: pre-calculated bounds
    playerStates,       \* areacontrol: presence cache, uuid -> boolean
    playerCooldowns,    \* areacontrol: cooldown map, uuid -> number
    persistentData,     \* host: server.persistentData[CONFIG_FILE]
    blockPos,           \* host: player.blockPosition() of each player
    age,                \* host: player.age of each player
    ops,                \* host: the players with operator permissions
    effects,            \* history: the enter/leave side effects per player
    track,              \* history: per player, what login and the checks did
    reply,              \* history: status and text of the last command
    EventBus,           \* areacontrol: global["eventBus"] as the script saw it
    itemsCooldowns,     \* host: player.getCooldowns(), ticks left per item
    finished            \* history: the last item-use-finished event

vars == <<iteration, online, started, gameTime, ticking, lastFired, eventMap,
          player, lastPlayerInfoMap, using, cooldownUntil, c4Blocks,
          toExplosionC4Map, timers, nextId, devices, sess, intent, inputs,
          told, probes, checked, invoked, emits, registered, dataMap,
          dataLog, config, bounds,
          playerStates, playerCooldowns, persistentData, blockPos, age, ops,
          effects, track, reply, EventBus, itemsCooldowns, finished>>

\* the variables of the two bus studies and of area control
busVars == <<invoked, emits, registered, dataMap, dataLog>>

areaVars == <<config, bounds, playerStates, playerCooldowns, persistentData,
              blockPos, age, ops, effects, track, reply, EventBus,
              itemsCooldowns, finished>>

----------------------------------------------------------------------------
(* Program constants *)

C4_EXPLOSION_TIME == 60
C4_EXPLOSION_POWER == 128
C4_USE_TIME == 100
ANGLE_TOLERANCE == 1
POS_TOLERANCE == 10
REVALIDATE_PERIOD == 2
BROADCAST_PERIOD == 20
FAIL_COOLDOWN == 20
BOOTSTRAP_DELAY == 1

(* Bounds of the model *)

MaxTick == 164
ArmWindow == 1
MaxEnv == 4
MaxProbes == 2
MaxSchedTick == 6

Players == {"alice", "bob"}
Iterations == {"server_scripts", "startup_scripts"}
Topics == {"C4Activated", "C4UseStarted"}

C4_ITEM == "kubejs:c4_item"
C4_BLOCK == "kubejs:c4"
C4_TARGET == "kubejs:c4_target"
AIR == "minecraft:air"

NoInfo == [defined |-> FALSE, angle |-> <<0, 0, 0>>, pos |-> <<0, 0, 0>>,
           blockPos |-> <<0, 0, 0>>]

\* c4_target blocks of the world (unbreakable, so the set never changes)
TargetBlocks == {<<0, -1, 0>>, <<1, -1, 0>>}

----------------------------------------------------------------------------
(* Pure helpers of startup_scripts/C4.js *)

Abs(a) == IF a < 0 THEN -a ELSE a

\* Math.floor of a fixed-point value
Floor(v) == v \div 1000

\* a comparison that rejects a deviation equal to the tolerance
isApproximatelyEqualStrict(a, b, tolerance) == Abs(a - b) < tolerance

isApproximatelyEqual(a, b, tolerance) == Abs(a - b) <= tolerance

getBlockUnderPlayer(pl) ==
    <<Floor(pl.pos[1]), Floor(pl.pos[2]) - 1, Floor(pl.pos[3])>>

\* level.getBlock(x, y, z).id
BlockId(blocks, bp) ==
    IF bp \in blocks THEN C4_BLOCK
    ELSE IF bp \in TargetBlocks THEN C4_TARGET
    ELSE AIR

isBlockPosChanged(pl, info) ==
    LET cur == getBlockUnderPlayer(pl) IN
    \/ cur[1] # info.blockPos[1]
    \/ cur[2] # info.blockPos[2]
    \/ cur[3] # info.blockPos[3]

isPosChanged(pl, info) ==
    \/ ~isApproximatelyEqual(pl.pos[1], info.pos[1], POS_TOLERANCE)
    \/ ~isApproximatelyEqual(pl.pos[2], info.pos[2], POS_TOLERANCE)
    \/ ~isApproximatelyEqual(pl.pos[3], info.pos[3], POS_TOLERANCE)

isAngleChanged(pl, info) ==
    \/ ~isApproximatelyEqual(pl.angle[1], info.angle[1], ANGLE_TOLERANCE)
    \/ ~isApproximatelyEqual(pl.angle[2], info.angle[2], ANGLE_TOLERANCE)
    \/ ~isApproximatelyEqual(pl.angle[3], info.angle[3], ANGLE_TOLERANCE)

shouldActivateC4(itemId, blocks, pl, info) ==
    IF ~info.defined THEN FALSE
    ELSE /\ BlockId(blocks, getBlockUnderPlayer(pl)) = C4_TARGET
         /\ ~(isBlockPosChanged(pl, info) \/ isPosChanged(pl, info)
                \/ isAngleChanged(pl, info))
         /\ itemId = C4_ITEM

\* the snapshot shouldStartUseC4 stores
Snapshot(pl) ==
    [defined |-> TRUE, angle |-> pl.angle, pos |-> pl.pos,
     blockPos |-> getBlockUnderPlayer(pl)]

----------------------------------------------------------------------------
(* The mutable program state as one record, so that handlers compose *)

Cur ==
    [info |-> lastPlayerInfoMap, pl |-> player, use |-> using,
     cd |-> cooldownUntil, blocks |-> c4Blocks, map |-> toExplosionC4Map,
     tm |-> timers, nid |-> nextId, dev |-> devices, ss |-> sess,
     told |-> told, pr |-> probes]

Commit(s) ==
    /\ lastPlayerInfoMap' = s.info
    /\ player' = s.pl
    /\ using' = s.use
    /\ cooldownUntil' = s.cd
    /\ c4Blocks' = s.blocks
    /\ toExplosionC4Map' = s.map
    /\ timers' = s.tm
    /\ nextId' = s.nid
    /\ devices' = s.dev
    /\ sess' = s.ss
    /\ told' = s.told
    /\ probes' = s.pr

----------------------------------------------------------------------------
(* Scheduler of the host (server.scheduleInTicks / scheduleRepeatingInTicks / *)
(* event.clear), as section 4.1 of the specification describes it            *)

\* host: the player is not using an item
NotUsing == [active |-> FALSE, start |-> 0]

NoData == [owner |-> "none", startTime |-> 0, dev |-> 0, remaining |-> 0,
           pos |-> <<0, 0, 0>>, power |-> 0, target |-> 0]

NewTimer(id, kind, due, period, delay, data) ==
    [id |-> id, kind |-> kind, due |-> due, period |-> period,
     delay |-> delay, cancelled |-> FALSE, owner |-> data.owner,
     startTime |-> data.startTime, dev |-> data.dev,
     remaining |-> data.remaining, pos |-> data.pos, power |-> data.power,
     target |-> data.target]

\* server.scheduleInTicks(d, callback): one shot, due d ticks from now
scheduleInTicks(s, d, kind, data) ==
    [s EXCEPT !.tm = Append(@, NewTimer(s.nid, kind, gameTime + d, 0, d, data)),
              !.nid = @ + 1]

\* server.scheduleRepeatingInTicks(p, callback): first due p ticks from now
scheduleRepeatingInTicks(s, p, kind, data) ==
    [s EXCEPT !.tm = Append(@, NewTimer(s.nid, kind, gameTime + p, p, p, data)),
              !.nid = @ + 1]

\* a clear() that does nothing
clearWithoutEffect(s, id) == s

\* scheduledEvent.clear(): the handle becomes inert
clear(s, id) ==
    [s EXCEPT !.tm = [i \in DOMAIN @ |->
                        IF @[i].id = id THEN [@[i] EXCEPT !.cancelled = TRUE]
                        ELSE @[i]]]

\* a timer fires only if it is not cancelled at the moment it would fire
IsLive(t) == ~t.cancelled

\* the timers still to fire in this tick's batch, in registration order
DueTimers(tm, last) ==
    {i \in DOMAIN tm : /\ tm[i].id > last
                       /\ tm[i].due <= gameTime
                       /\ IsLive(tm[i])}

HasDue == DueTimers(timers, lastFired) # {}

NextDue ==
    LET D == DueTimers(timers, lastFired)
        i == CHOOSE i \in D : \A j \in D : timers[i].id <= timers[j].id
    IN timers[i]

\* a scheduler that keeps a one-shot timer after it fired
RearmWithoutSpending(s, t) ==
    [s EXCEPT !.tm = [i \in DOMAIN @ |->
        IF @[i].id # t.id \/ @[i].period = 0 \/ @[i].cancelled THEN @[i]
        ELSE [@[i] EXCEPT !.due = @ + t.period]]]

\* after its callback ran: a one-shot timer is spent, a repeating one that
\* was not cleared is re-armed one period later
Rearm(s, t) ==
    [s EXCEPT !.tm = [i \in DOMAIN @ |->
        IF @[i].id # t.id THEN @[i]
        ELSE IF @[i].period = 0 THEN [@[i] EXCEPT !.cancelled = TRUE]
        ELSE IF @[i].cancelled THEN @[i]
        ELSE [@[i] EXCEPT !.due = @ + t.period]]]

\* end of a scheduler step: inert handles are dropped; the handles that stay
\* are renamed 1..n in registration order (a handle is opaque, only its
\* identity and its rank matter)
Purge(tm) ==
    LET live == SelectSeq(tm, LAMBDA t : ~t.cancelled)
    IN [i \in DOMAIN live |-> [live[i] EXCEPT !.id = i]]

----------------------------------------------------------------------------
(* History records (not read by the program) *)

NoSess == [state |-> "idle", armedAt |-> 0, checks |-> 0, fails |-> 0,
           still |-> TRUE, placed |-> 0, placedAfter |-> 0, checksAtPlace |-> 0,
           snap |-> NoInfo]

NewDevice(p, pos, power, sessState) ==
    [owner |-> p, pos |-> pos, placedAt |-> gameTime, power |-> power,
     sessState |-> sessState, broken |-> FALSE, removed |-> FALSE,
     explodedAfter |-> -1, nExpl |-> 0, explodedAt |-> <<0, 0, 0>>,
     explodedWith |-> 0, ownerMoved |-> FALSE,
     absent |-> FALSE, bc |-> {}, bcZero |-> FALSE]

\* the session of p ends without a device (its counters are dropped)
Invalidate(ss, p) ==
    IF ss[p].state = "arming"
    THEN [ss EXCEPT ![p] = [NoSess EXCEPT !.state = "invalidated",
                                          !.armedAt = ss[p].armedAt]]
    ELSE ss

----------------------------------------------------------------------------
(* C4Activated: the device is placed and its countdown starts *)

Feet(pl) == <<Floor(pl.pos[1]), Floor(pl.pos[2]), Floor(pl.pos[3])>>

\* newBlock.set("kubejs:c4"), with the history record of the new device
PlaceBlock(s, p, power) ==
    [s EXCEPT !.blocks = @ \cup {Feet(s.pl[p])},
              !.dev = Append(@, NewDevice(p, Feet(s.pl[p]), power,
                                          s.ss[p].state)),
              !.ss[p].state = "placed",
              !.ss[p].placed = @ + 1,
              !.ss[p].placedAfter = gameTime - s.ss[p].armedAt,
              !.ss[p].checksAtPlace = s.ss[p].checks]

\* server_scripts iteration: explosion record, repeating countdown,
\* one-shot detonation
handleC4ActivatedServer(s, p, explosionTime, explosionPower) ==
    LET s1 == PlaceBlock(s, p, explosionPower)
        d == Len(s1.dev)
        pos == Feet(s.pl[p])
        s2 == [s1 EXCEPT !.map[pos] = "true"]
        data == [NoData EXCEPT !.owner = p, !.dev = d, !.pos = pos,
                               !.power = explosionPower,
                               !.remaining = explosionTime \div 20]
        s3 == scheduleRepeatingInTicks(s2, BROADCAST_PERIOD, "countdown", data)
    IN scheduleInTicks(s3, explosionTime, "detonate", data)

\* startup_scripts iteration: for (i = 0; i < explosionTime; i += 20)
\* scheduleInTicks(i, broadcast)
RECURSIVE ScheduleBroadcasts(_, _, _, _)
ScheduleBroadcasts(s, i, explosionTime, data) ==
    IF i < explosionTime
    THEN ScheduleBroadcasts(scheduleInTicks(s, i, "broadcast", data),
                            i + BROADCAST_PERIOD, explosionTime, data)
    ELSE s

\* startup_scripts iteration: pre-scheduled broadcasts, unconditional
\* detonation, no explosion record
handleC4ActivatedStartup(s, p, explosionTime, explosionPower) ==
    LET s1 == PlaceBlock(s, p, explosionPower)
        d == Len(s1.dev)
        data == [NoData EXCEPT !.owner = p, !.dev = d, !.pos = Feet(s.pl[p]),
                               !.power = explosionPower,
                               !.remaining = explosionTime]
        s2 == ScheduleBroadcasts(s1, 0, explosionTime, data)
    IN scheduleInTicks(s2, explosionTime, "explode", data)

\* eventBus.emit("C4Activated", {...})
EmitC4Activated(s, p, explosionTime, explosionPower) ==
    CASE eventMap["C4Activated"] = "server_scripts" ->
            handleC4ActivatedServer(s, p, explosionTime, explosionPower)
      [] eventMap["C4Activated"] = "startup_scripts" ->
            handleC4ActivatedStartup(s, p, explosionTime, explosionPower)
      [] OTHER -> s

----------------------------------------------------------------------------
(* Item callbacks of c4_item *)

\* a releaseUsing that leaves the snapshot in place
releaseUsingKeepingSnapshot(s, p) ==
    [s EXCEPT !.ss = Invalidate(@, p)]

\* releaseUsing: the snapshot is deleted
releaseUsing(s, p) ==
    [s EXCEPT !.info[p] = NoInfo, !.ss = Invalidate(@, p)]

\* finishUsing: final validation, then the item is consumed and C4Activated
\* is emitted
finishUsing(s, p, itemId) ==
    IF ~shouldActivateC4(itemId, s.blocks, s.pl[p], s.info[p])
    THEN [s EXCEPT !.info[p] = NoInfo, !.ss = Invalidate(@, p)]
    ELSE LET s1 == [s EXCEPT !.pl[p].item = AIR, !.use[p] = NotUsing]
         IN EmitC4Activated(s1, p, C4_EXPLOSION_TIME, C4_EXPLOSION_POWER)

\* a shouldStartUseC4 that does not look for an existing snapshot
shouldStartUseC4IgnoringSession(s, p) ==
    BlockId(s.blocks, getBlockUnderPlayer(s.pl[p])) = C4_TARGET

\* a shouldStartUseC4 that does not look at the support block
shouldStartUseC4IgnoringTarget(s, p) ==
    ~s.info[p].defined

\* shouldStartUseC4: the two preconditions of an arm-intent
shouldStartUseC4(s, p) ==
    /\ BlockId(s.blocks, getBlockUnderPlayer(s.pl[p])) = C4_TARGET
    /\ ~s.info[p].defined

\* shouldStartUseC4, its write: the snapshot is captured
captureSnapshot(s, p) ==
    [s EXCEPT !.info[p] = Snapshot(s.pl[p]),
              !.ss[p] = [NoSess EXCEPT !.state = "arming",
                                       !.armedAt = gameTime,
                                       !.still = s.pl[p].item = C4_ITEM,
                                       !.snap = Snapshot(s.pl[p])]]

\* handleC4UseStarted: the re-validation timer of the session
handleC4UseStarted(s, p) ==
    scheduleRepeatingInTicks(s, REVALIDATE_PERIOD, "revalidate",
        [NoData EXCEPT !.owner = p, !.startTime = gameTime])

\* eventBus.emit("C4UseStarted", {player})
EmitC4UseStarted(s, p) ==
    IF eventMap["C4UseStarted"] = "none" THEN s ELSE handleC4UseStarted(s, p)

----------------------------------------------------------------------------
(* Timer callbacks *)

\* a re-validation that measures drift from the previous check: a passed
\* check stores the player's present values
revalidateRefreshing(s, t) ==
    LET p == t.owner
        ok == shouldActivateC4(s.pl[p].item, s.blocks, s.pl[p], s.info[p])
    IN IF ok /\ C4_USE_TIME - (gameTime - t.startTime) > 0
       THEN [s EXCEPT !.ss[p].checks = @ + 1, !.info[p] = Snapshot(s.pl[p])]
       ELSE clear(releaseUsing([s EXCEPT !.use[p] = NotUsing], p), t.id)

\* a re-validation whose failed check ends the use and leaves the timer
\* registered
revalidateWithoutClear(s, t) ==
    LET p == t.owner
        itemId == s.pl[p].item
        ok == shouldActivateC4(itemId, s.blocks, s.pl[p], s.info[p])
        s0 == [s EXCEPT !.ss[p].checks = @ + 1,
                        !.ss[p].fails = IF ok THEN @ ELSE @ + 1]
    IN IF ~ok
       THEN releaseUsing([s0 EXCEPT !.use[p] = NotUsing,
                                    !.cd[p] = gameTime + FAIL_COOLDOWN], p)
       ELSE IF C4_USE_TIME - (gameTime - t.startTime) <= 0
       THEN clear([finishUsing(s0, p, itemId) EXCEPT !.info[p] = NoInfo], t.id)
       ELSE s0

\* re-validation callback registered by handleC4UseStarted
revalidate(s, t) ==
    LET p == t.owner
        itemId == s.pl[p].item
        ok == shouldActivateC4(itemId, s.blocks, s.pl[p], s.info[p])
        s0 == [s EXCEPT !.ss[p].checks = @ + 1,
                        !.ss[p].fails = IF ok THEN @ ELSE @ + 1]
    IN IF ~ok
       THEN \* stopUsingItem, addItemCooldown, releaseUsing, event.clear
            clear(releaseUsing([s0 EXCEPT !.use[p] = NotUsing,
                                          !.cd[p] = gameTime + FAIL_COOLDOWN],
                               p), t.id)
       ELSE IF C4_USE_TIME - (gameTime - t.startTime) <= 0
       THEN \* finishUsingItem, delete lastPlayerInfoMap[uuid], event.clear
            clear([finishUsing(s0, p, itemId) EXCEPT !.info[p] = NoInfo], t.id)
       ELSE s0

\* an explosion at the place where the owner stands when the timer fires
ExplodeAtPlayer(s, t) ==
    [s EXCEPT !.blocks = {},
              !.dev[t.dev].nExpl = @ + 1,
              !.dev[t.dev].explodedAfter = gameTime - s.dev[t.dev].placedAt,
              !.dev[t.dev].explodedAt = Feet(s.pl[t.owner]),
              !.dev[t.dev].explodedWith = t.power]

\* level.explode: the blast also removes every kubejs:c4 block in range
\* (resistance 1); the modelled positions all lie in range
Explode(s, t) ==
    [s EXCEPT !.blocks = {},
              !.dev = [i \in DOMAIN @ |->
                  IF i = t.dev
                  THEN [@[i] EXCEPT !.nExpl = @ + 1,
                                    !.explodedAfter =
                                        gameTime - s.dev[i].placedAt,
                                    !.explodedAt = t.pos,
                                    !.explodedWith = t.power,
                                    !.absent = t.pos \notin s.blocks]
                  ELSE IF @[i].pos \in s.blocks
                  THEN [@[i] EXCEPT !.removed = TRUE]
                  ELSE @[i]]]

SetRemaining(s, id, r) ==
    [s EXCEPT !.tm = [i \in DOMAIN @ |->
                        IF @[i].id = id THEN [@[i] EXCEPT !.remaining = r]
                        ELSE @[i]]]

\* server.players.forEach(p => p.tell("C4 ... seconds left"))
Broadcast(s, d, remainingSeconds) ==
    [s EXCEPT !.dev[d].bc = @ \cup {gameTime - s.dev[d].placedAt},
              !.dev[d].bcZero = @ \/ remainingSeconds <= 0]

\* server_scripts iteration: repeating countdown
countdown(s, t) ==
    IF s.map[t.pos] = "null" THEN clear(s, t.id)
    ELSE LET r == t.remaining - 1
             s1 == SetRemaining(s, t.id, r)
         IN IF r <= 0 THEN clear(s1, t.id) ELSE Broadcast(s1, t.dev, r)

\* server_scripts iteration: detonation
detonate(s, t) ==
    IF s.map[t.pos] = "null" THEN s ELSE Explode(s, t)

\* startup_scripts iteration: one pre-scheduled broadcast
broadcast(s, t) ==
    Broadcast(s, t.dev, (t.remaining - t.delay) \div 20)

----------------------------------------------------------------------------
(* BlockEvents.broken *)

MapAvailable == iteration = "server_scripts"

\* the host removes the block; history: the devices at pos are broken
RemoveBlock(s, pos) ==
    [s EXCEPT !.blocks = @ \ {pos},
              !.dev = [i \in DOMAIN @ |->
                  IF @[i].pos = pos /\ ~@[i].removed /\ @[i].nExpl = 0
                  THEN [@[i] EXCEPT !.broken = TRUE, !.removed = TRUE]
                  ELSE @[i]]]

blockBroken(s, pos) ==
    IF ~MapAvailable THEN s
    ELSE IF s.map[pos] = "true"
    THEN [s EXCEPT !.map[pos] = "null", !.told = @ + 1]
    ELSE s

----------------------------------------------------------------------------
(* The bus study and area control before anything has happened *)

\* no register and no emit yet, nothing exported
BusIdle ==
    /\ invoked = <<>>
    /\ emits = <<>>
    /\ registered = <<>>
    /\ dataMap = <<>>
    /\ dataLog = <<>>

SECOND_TICKS == 20

\* JavaScript booleans are "true" / "false"; a boolean that went through
\* NBT.toTag comes back as the byte "1b" / "0b"
Truthy(v) == v \in {"true", "1b"}

Not(v) == IF Truthy(v) THEN "false" ELSE "true"

JsBool(b) == IF b THEN "true" ELSE "false"

\* let config = { ... }
DefaultConfig ==
    [enabled |-> "true", isIncludingOPs |-> "false",
     enableCooldown |-> "true", center |-> [x |-> 0, y |-> 0, z |-> 0],
     radius |-> 5, whitelist |-> <<>>, mode |-> "adventure",
     cooldownSecs |-> 10 * SECOND_TICKS, checkFrequency |-> 3 * SECOND_TICKS]

\* const bounds = { ... }
DefaultBounds == [minX |-> -50, maxX |-> 50, minZ |-> -50, maxZ |-> 50]

\* persistentData does not contain CONFIG_FILE
NoBlob == [present |-> FALSE, tag |-> DefaultConfig]

\* history: no command yet; n counts the commands, status is the value the
\* command returned, success / failure the number of sendSuccess /
\* sendFailure messages it sent
NoReply ==
    [n |-> 0, cmd |-> "none", arg |-> "none", status |-> 0, success |-> 0,
     failure |-> 0]

\* history of a player: the number of membership tests made (login and
\* non-skipped checks), the position and bounds of the last one; since the
\* last login: the membership at login ("none": never logged in), whether
\* the player was subject to area control then, whether a command emptied
\* the cache before the first non-skipped check, the number of non-skipped
\* checks, and the number of enter effects up to the end of the first one
NoTrack ==
    [tests |-> 0, pos |-> [x |-> 0, y |-> 0, z |-> 0],
     bnd |-> DefaultBounds, inside0 |-> "none", subject0 |-> FALSE,
     cleared |-> FALSE, checks |-> 0, enters |-> 0, last |-> "none"]

\* the items of the item-use events
Items == {"apple", "bread"}

\* no item of any player is on cooldown
NoCooldowns == [p \in Players |-> [i \in Items |-> 0]]

\* history: no item-use-finished event yet; n counts the events, added says
\* whether the handler called addCooldown, with ticks as the length
NoFinish ==
    [n |-> 0, entity |-> "none", item |-> "none", added |-> FALSE,
     ticks |-> 0]

\* the script has been loaded with the bus in place, nobody is online
AreaIdle ==
    /\ itemsCooldowns = NoCooldowns
    /\ finished = NoFinish
    /\ config = DefaultConfig
    /\ bounds = DefaultBounds
    /\ playerStates = [p \in Players |-> "undefined"]
    /\ playerCooldowns = [p \in Players |-> "undefined"]
    /\ persistentData = NoBlob
    /\ blockPos = [p \in Players |-> [x |-> 0, y |-> 0, z |-> 0]]
    /\ age = [p \in Players |-> 0]
    /\ ops = {}
    /\ effects = [p \in Players |-> <<>>]
    /\ track = [p \in Players |-> NoTrack]
    /\ reply = NoReply
    /\ EventBus = "defined"

----------------------------------------------------------------------------
(* Inputs of the device-session model *)

\* block positions a device can be placed at
MapKeys == {<<x, 0, 0>> : x \in 0..2}

BasePose ==
    [pos |-> <<500, 0, 500>>, angle |-> <<0, 0, 1000>>, item |-> C4_ITEM]

\* what a player can change to: jitter at the tolerance (position and view),
\* drift beyond it, a step off the target, another held item
OffTargetPose == [BasePose EXCEPT !.pos = <<2500, 0, 500>>]

MovePoses ==
    { BasePose,
      [BasePose EXCEPT !.pos = <<510, 0, 500>>, !.angle = <<1, 0, 1000>>],
      [BasePose EXCEPT !.pos = <<511, 0, 500>>],
      OffTargetPose,
      [BasePose EXCEPT !.item = "minecraft:stick"] }

\* where the players stand when the server starts
StartPoses ==
    {f \in [Players -> {BasePose, OffTargetPose}] :
        \A p \in Players : f[p] = OffTargetPose => p = "bob"}

NoIntent == [n |-> 0, p |-> "none", ok |-> FALSE, kind |-> "none"]

Init ==
    /\ iteration \in Iterations
    /\ online \in {{"alice"}, Players}
    /\ started = FALSE
    /\ gameTime = 0
    /\ ticking = FALSE
    /\ lastFired = 0
    /\ eventMap = [tp \in Topics |-> "none"]
    /\ player \in {f \in StartPoses :
                        \A p \in Players \ online : f[p] = BasePose}
    /\ lastPlayerInfoMap = [p \in Players |-> NoInfo]
    /\ using = [p \in Players |-> NotUsing]
    /\ cooldownUntil = [p \in Players |-> 0]
    /\ c4Blocks = {}
    /\ toExplosionC4Map = [k \in MapKeys |-> "undefined"]
    /\ timers = <<>>
    /\ nextId = 1
    /\ devices = <<>>
    /\ sess = [p \in Players |-> NoSess]
    /\ intent = NoIntent
    /\ inputs = 0
    /\ told = 0
    /\ probes = <<>>
    /\ checked = "unchecked"
    /\ BusIdle
    /\ AreaIdle

----------------------------------------------------------------------------
(* Actions *)

\* a server start that binds the two handlers and schedules no priming timer
ServerStartedWithoutPriming ==
    /\ ~started
    /\ started' = TRUE
    /\ Commit(Cur)
    /\ eventMap' = [eventMap EXCEPT !["C4Activated"] = iteration,
                                    !["C4UseStarted"] = iteration]
    /\ UNCHANGED <<busVars, areaVars, checked, iteration, online, gameTime,
                   ticking, lastFired, intent, inputs>>

\* ServerStartedEvent / ServerEvents.loaded: the priming timer, then the two
\* handlers are bound
ServerStarted ==
    /\ ~started
    /\ started' = TRUE
    /\ Commit(scheduleInTicks(Cur, BOOTSTRAP_DELAY, "bootstrap", NoData))
    /\ eventMap' = [eventMap EXCEPT !["C4Activated"] = iteration,
                                    !["C4UseStarted"] = iteration]
    /\ UNCHANGED <<busVars, areaVars, checked, iteration, online, gameTime, ticking, lastFired,
                   intent, inputs>>

\* external inputs arrive before the scheduler step of the tick; the size of
\* the environment (players online plus inputs they give) is bounded
EventsOpen ==
    started /\ ~ticking /\ Cardinality(online) + inputs < MaxEnv

ArmIntent(p, kind) ==
    /\ inputs' = inputs + 1
    /\ intent' = [n |-> inputs + 1, p |-> p, ok |-> shouldStartUseC4(Cur, p),
                  kind |-> kind]
    /\ UNCHANGED <<busVars, areaVars, checked, iteration, online, started, gameTime, ticking,
                   lastFired, eventMap>>

\* c4_item use callback
ItemUse(p) ==
    /\ EventsOpen
    /\ gameTime <= ArmWindow
    /\ player[p].item = C4_ITEM
    /\ ~using[p].active
    /\ gameTime >= cooldownUntil[p]
    /\ ArmIntent(p, "use")
    /\ IF ~shouldStartUseC4(Cur, p) THEN Commit(Cur)
       ELSE Commit([EmitC4UseStarted(captureSnapshot(Cur, p), p)
                        EXCEPT !.use[p] = [active |-> TRUE,
                                           start |-> gameTime]])

\* PlayerTickEvent handler: one consumed click of the operation key
KeyClick(p) ==
    /\ EventsOpen
    /\ gameTime <= ArmWindow
    /\ ArmIntent(p, "key")
    /\ IF ~shouldStartUseC4(Cur, p) THEN Commit(Cur)
       ELSE Commit(EmitC4UseStarted(captureSnapshot(Cur, p), p))

\* the player lets go of the use button: the host calls releaseUsing
HostRelease(p) ==
    /\ EventsOpen
    /\ using[p].active
    /\ inputs' = inputs + 1
    /\ Commit([releaseUsing(Cur, p) EXCEPT !.use[p] = NotUsing])
    /\ UNCHANGED <<busVars, areaVars, checked, iteration, online, started, gameTime, ticking,
                   lastFired, eventMap, intent>>

\* the use lasted useDuration (C4_USE_TIME) ticks: the host calls finishUsing
\* while it ticks the player, before the scheduler step of that tick
HostFinish(p) ==
    /\ started /\ lastFired = 0
    /\ ticking' = TRUE
    /\ using[p].active
    /\ gameTime - using[p].start >= C4_USE_TIME
    /\ Commit([finishUsing(Cur, p, player[p].item)
                    EXCEPT !.use[p] = NotUsing])
    /\ UNCHANGED <<busVars, areaVars, checked, iteration, online, started, gameTime, lastFired,
                   eventMap, intent, inputs>>

\* the player moves, turns or changes the held item (only moves that can
\* matter are drawn: before an arm-intent is still possible, during a
\* session, or in the ticks after the player's device was placed)
Move(p, pose) ==
    /\ EventsOpen
    /\ \/ gameTime <= ArmWindow
       \/ lastPlayerInfoMap[p].defined
       \/ \E i \in DOMAIN devices :
             /\ devices[i].owner = p
             /\ gameTime <= devices[i].placedAt + ArmWindow
    /\ pose # player[p]
    /\ inputs' = inputs + 1
    /\ Commit([Cur EXCEPT
          !.pl[p] = pose,
          !.dev = [i \in DOMAIN @ |->
                      IF @[i].owner = p /\ Feet(pose) # @[i].pos
                      THEN [@[i] EXCEPT !.ownerMoved = TRUE]
                      ELSE @[i]],
          !.use[p] = IF pose.item = player[p].item THEN @ ELSE NotUsing,
          !.ss[p].still = @ /\ shouldActivateC4(pose.item, c4Blocks, pose,
                                                 sess[p].snap)])
    /\ UNCHANGED <<busVars, areaVars, checked, iteration, online, started, gameTime, ticking,
                   lastFired, eventMap, intent>>

\* BlockEvents.broken for a kubejs:c4 block
BlockBroken(pos) ==
    /\ EventsOpen
    /\ pos \in c4Blocks
    /\ inputs' = inputs + 1
    /\ Commit(blockBroken(RemoveBlock(Cur, pos), pos))
    /\ UNCHANGED <<busVars, areaVars, checked, iteration, online, started, gameTime, ticking,
                   lastFired, eventMap, intent>>

\* the scheduler fires the next due timer of this tick
Fire(kind, s) ==
    /\ started
    /\ HasDue
    /\ NextDue.kind = kind
    /\ lastFired' = NextDue.id
    /\ ticking' = TRUE
    /\ Commit(Rearm(s, NextDue))
    /\ UNCHANGED <<busVars, areaVars, checked, iteration, online, started, gameTime, eventMap,
                   intent, inputs>>

FireBootstrap == Fire("bootstrap", Cur)
FireRevalidate == Fire("revalidate", revalidate(Cur, NextDue))
FireCountdown == Fire("countdown", countdown(Cur, NextDue))
FireDetonate == Fire("detonate", detonate(Cur, NextDue))
FireBroadcast == Fire("broadcast", broadcast(Cur, NextDue))
FireExplode == Fire("explode", Explode(Cur, NextDue))

\* nothing is due any more: the tick ends (the clock is followed while an
\* arm-intent can still come or a timer is pending)
AdvanceTick ==
    /\ started
    /\ ~HasDue
    /\ gameTime < MaxTick
    /\ gameTime <= ArmWindow \/ Purge(timers) # <<>>
    /\ gameTime' = gameTime + 1
    /\ lastFired' = 0
    /\ ticking' = FALSE
    /\ timers' = Purge(timers)
    /\ nextId' = Len(Purge(timers)) + 1
    /\ intent' = NoIntent
    /\ cooldownUntil' = [p \in Players |->
                            IF cooldownUntil[p] <= gameTime + 1 THEN 0
                            ELSE cooldownUntil[p]]
    /\ UNCHANGED <<busVars, areaVars, checked, iteration, online, started, eventMap, player,
                   lastPlayerInfoMap, using, c4Blocks, toExplosionC4Map,
                   devices, sess, inputs, told, probes>>

Next ==
    \/ ServerStarted
    \/ \E p \in online : ItemUse(p)
    \/ \E p \in online : KeyClick(p)
    \/ \E p \in online : HostRelease(p)
    \/ \E p \in online : HostFinish(p)
    \/ \E p \in online, pose \in MovePoses : Move(p, pose)
    \/ \E pos \in MapKeys : BlockBroken(pos)
    \/ FireBootstrap
    \/ FireRevalidate
    \/ FireCountdown
    \/ FireDetonate
    \/ FireBroadcast
    \/ FireExplode
    \/ AdvanceTick

Spec == Init /\ [][Next]_vars

\* the same program when the scheduler step always precedes the host's own
\* completion of a use (finishUsing is reached through the timer only)
NextTimerDriven ==
    \/ ServerStarted
    \/ \E p \in online : ItemUse(p)
    \/ \E p \in online : KeyClick(p)
    \/ \E p \in online : HostRelease(p)
    \/ \E p \in online, pose \in MovePoses : Move(p, pose)
    \/ \E pos \in MapKeys : BlockBroken(pos)
    \/ FireBootstrap
    \/ FireRevalidate
    \/ FireCountdown
    \/ FireDetonate
    \/ FireBroadcast
    \/ FireExplode
    \/ AdvanceTick

SpecTimerDriven == Init /\ [][NextTimerDriven]_vars

----------------------------------------------------------------------------
(* Device sessions: properties *)

\* the ticks, counted from placement, at which a device of fuse F is to
\* broadcast: the multiples of the period strictly between 0 and F
BroadcastTicks(F) ==
    {k \in 1..(F - 1) : k % BROADCAST_PERIOD = 0}

\* C1: a device whose block was broken before its detonation timer fired is
\* defused: the explosion is never invoked for it at any later tick
C1_BrokenNeverExplodes ==
    \A i \in DOMAIN devices : devices[i].broken => devices[i].nExpl = 0

\* C2: when the detonation timer fires, the explosion is invoked only if the
\* device block is still present in the world at the recorded position; for
\* an absent block, however it was removed, the explosion is skipped
C2_ExplodesOnlyIfPresent ==
    \A i \in DOMAIN devices : ~devices[i].absent

IsArmIntentOf(p) ==
    intent'.n # intent.n /\ intent'.n # 0 /\ intent'.p = p

\* C4: an arm-intent of a player who already has an arming session (a
\* snapshot) is rejected: the snapshot, and every other snapshot, is
\* unchanged, C4UseStarted is not emitted and no timer is registered
C4_SecondIntentIsNoOp ==
    [][\A p \in Players :
          (IsArmIntentOf(p) /\ lastPlayerInfoMap[p].defined)
              => /\ ~intent'.ok
                 /\ UNCHANGED <<lastPlayerInfoMap, timers, nextId, using,
                                player, cooldownUntil, c4Blocks,
                                toExplosionC4Map, devices, sess, told,
                                eventMap>>]_vars

\* an arm-intent of a player with a session on a target block was rejected
C4_Witness ==
    /\ intent.n # 0
    /\ ~intent.ok
    /\ lastPlayerInfoMap[intent.p].defined
    /\ BlockId(c4Blocks, getBlockUnderPlayer(player[intent.p])) = C4_TARGET

\* C5: an arm-intent of a player whose support block is not a target block
\* is rejected and nothing is mutated: no snapshot, no C4UseStarted, no
\* timer, and the sessions of the other players are unchanged
C5_OffTargetIntentIsNoOp ==
    [][\A p \in Players :
          (/\ IsArmIntentOf(p)
           /\ BlockId(c4Blocks, getBlockUnderPlayer(player[p])) # C4_TARGET)
              => /\ ~intent'.ok
                 /\ UNCHANGED <<lastPlayerInfoMap, timers, nextId, using,
                                player, cooldownUntil, c4Blocks,
                                toExplosionC4Map, devices, sess, told,
                                eventMap>>]_vars

\* an arm-intent of a player without a session, off the target, was
\* rejected while another player has a session
C5_Witness ==
    /\ intent.n # 0
    /\ ~intent.ok
    /\ ~lastPlayerInfoMap[intent.p].defined
    /\ BlockId(c4Blocks, getBlockUnderPlayer(player[intent.p])) # C4_TARGET
    /\ \E q \in Players \ {intent.p} : lastPlayerInfoMap[q].defined

\* C6: after an arm-intent accepted at tick t, if the player stays still on
\* the target holding the device item and does not release, exactly one
\* placement occurs, at tick t + C4_USE_TIME, after exactly
\* C4_USE_TIME / REVALIDATE_PERIOD re-validation checks, none of which fails
C6_PlacedAfterFiftyChecks ==
    \A p \in Players :
        (sess[p].state \in {"arming", "placed"} /\ sess[p].still)
            => /\ sess[p].fails = 0
               /\ sess[p].placed <= 1
               /\ sess[p].state = "arming"
                      => gameTime <= sess[p].armedAt + C4_USE_TIME
               /\ sess[p].state = "placed"
                      => /\ sess[p].placedAfter = C4_USE_TIME
                         /\ sess[p].checksAtPlace
                                = C4_USE_TIME \div REVALIDATE_PERIOD

\* C7: a device with fuse F that is never broken broadcasts exactly at the
\* ticks 20, 40, .. below F after its placement, each with a positive
\* remaining count, never at the placement tick or at F, and detonates at
\* tick F after its placement
C7_BroadcastsThenDetonation ==
    \A i \in DOMAIN devices :
        ~devices[i].removed
            => /\ devices[i].bc \subseteq BroadcastTicks(C4_EXPLOSION_TIME)
               /\ ~devices[i].bcZero
               /\ devices[i].nExpl <= 1
               /\ devices[i].nExpl = 1
                      => /\ devices[i].explodedAfter = C4_EXPLOSION_TIME
                         /\ devices[i].bc = BroadcastTicks(C4_EXPLOSION_TIME)
               /\ gameTime > devices[i].placedAt + C4_EXPLOSION_TIME
                      => devices[i].nExpl = 1

----------------------------------------------------------------------------
(* Validator study: shouldActivateC4 on drawn inputs *)

\* where the snapshot was taken: the middle of a target block, and a spot
\* next to the border of the two target blocks
SnapPoses ==
    { BasePose, [BasePose EXCEPT !.pos = <<995, 0, 500>>] }

\* deviations per axis: none, at the tolerance, one step beyond it
PosDevs ==
    {-(POS_TOLERANCE + 1), -POS_TOLERANCE, 0, POS_TOLERANCE, POS_TOLERANCE + 1}
AngleDevs ==
    {-(ANGLE_TOLERANCE + 1), -ANGLE_TOLERANCE, 0, ANGLE_TOLERANCE,
     ANGLE_TOLERANCE + 1}

Shifted(v, d) == <<v[1] + d[1], v[2] + d[2], v[3] + d[3]>>

\* the player alice, her snapshot (or none) and the block under her (the
\* target block, or a kubejs:c4 block in its place) are drawn
InitValidate ==
    /\ iteration = "startup_scripts"
    /\ online = {"alice"}
    /\ started = TRUE
    /\ gameTime = 0
    /\ ticking = FALSE
    /\ lastFired = 0
    /\ eventMap = [tp \in Topics |-> "none"]
    /\ \E snap \in SnapPoses, dp \in PosDevs \X PosDevs \X PosDevs,
          da \in AngleDevs \X AngleDevs \X AngleDevs,
          item \in {C4_ITEM, "minecraft:stick"}, hasSnapshot \in BOOLEAN,
          replaced \in BOOLEAN :
          LET pose == [pos |-> Shifted(snap.pos, dp),
                       angle |-> Shifted(snap.angle, da), item |-> item]
          IN /\ player = [p \in Players |->
                            IF p = "alice" THEN pose ELSE BasePose]
             /\ lastPlayerInfoMap = [p \in Players |->
                            IF p = "alice" /\ hasSnapshot THEN Snapshot(snap)
                            ELSE NoInfo]
             /\ c4Blocks = IF replaced THEN {getBlockUnderPlayer(pose)}
                           ELSE {}
    /\ using = [p \in Players |-> NotUsing]
    /\ cooldownUntil = [p \in Players |-> 0]
    /\ toExplosionC4Map = [k \in MapKeys |-> "undefined"]
    /\ timers = <<>>
    /\ nextId = 1
    /\ devices = <<>>
    /\ sess = [p \in Players |-> NoSess]
    /\ intent = NoIntent
    /\ inputs = 0
    /\ told = 0
    /\ probes = <<>>
    /\ checked = "unchecked"
    /\ BusIdle
    /\ AreaIdle

\* one call of shouldActivateC4(itemstack, level, player)
Validate ==
    /\ checked = "unchecked"
    /\ checked' = IF shouldActivateC4(player["alice"].item, c4Blocks,
                                      player["alice"],
                                      lastPlayerInfoMap["alice"])
                  THEN "pass" ELSE "fail"
    /\ UNCHANGED <<busVars, areaVars, iteration, online, started, gameTime,
                   ticking, lastFired,
                   eventMap, player, lastPlayerInfoMap, using, cooldownUntil,
                   c4Blocks, toExplosionC4Map, timers, nextId, devices, sess,
                   intent, inputs, told, probes>>

NextValidate == Validate

SpecValidate == InitValidate /\ [][NextValidate]_vars

\* C8: the validator passes exactly when a snapshot exists, the block under
\* the player is a target block, the held item is the device item, the block
\* coordinates under the player equal the snapshot's, every position axis is
\* within POS_TOLERANCE and every view-angle axis within ANGLE_TOLERANCE of
\* the snapshot; the axes are compared one by one and a deviation equal to
\* the tolerance passes
C8_ValidatorPassesIff ==
    LET pl == player["alice"]
        info == lastPlayerInfoMap["alice"]
        under == <<pl.pos[1] \div 1000, (pl.pos[2] \div 1000) - 1,
                   pl.pos[3] \div 1000>>
    IN checked # "unchecked" =>
         (checked = "pass" <=>
            /\ info.defined
            /\ under \in TargetBlocks \ c4Blocks
            /\ pl.item = C4_ITEM
            /\ under = info.blockPos
            /\ \A i \in 1..3 :
                 /\ pl.pos[i] - info.pos[i] \in -POS_TOLERANCE..POS_TOLERANCE
                 /\ pl.angle[i] - info.angle[i]
                        \in -ANGLE_TOLERANCE..ANGLE_TOLERANCE)

\* the validator passed a player who deviates by exactly the tolerance on
\* two position axes (farther than the tolerance in a straight line) and on
\* a view-angle axis
C8_Witness ==
    LET pl == player["alice"]
        info == lastPlayerInfoMap["alice"]
    IN /\ checked = "pass"
       /\ pl.pos[1] - info.pos[1] = POS_TOLERANCE
       /\ pl.pos[3] - info.pos[3] = -POS_TOLERANCE
       /\ pl.angle[2] - info.angle[2] = ANGLE_TOLERANCE

----------------------------------------------------------------------------
(* Scheduler study: timers whose callbacks only record that they fired,    *)
(* clear a later-registered timer, or clear themselves                     *)

Delays == 0..2
Periods == 1..2
\* a repeating timer clears itself inside its n-th firing (0: never)
SelfClearAt == {0, 2}

NewProbe(delay, period) ==
    [at |-> gameTime, delay |-> delay, period |-> period, fires |-> <<>>,
     cancelledAt |-> -1, cancelledBy |-> 0, firesAtCancel |-> 0]

\* the callback of probe `by` calls clear() on the handle of probe j
clearProbe(s, j, by) ==
    IF \E i \in DOMAIN s.tm : s.tm[i].kind = "probe" /\ s.tm[i].dev = j
    THEN LET i == CHOOSE i \in DOMAIN s.tm :
                         s.tm[i].kind = "probe" /\ s.tm[i].dev = j
         IN [clear(s, s.tm[i].id) EXCEPT
                !.pr[j] = IF @.cancelledAt # -1 THEN @
                          ELSE [@ EXCEPT !.cancelledAt = gameTime,
                                         !.cancelledBy = by,
                                         !.firesAtCancel = Len(s.pr[j].fires)]]
    ELSE s

\* callback of a probe timer
probeCallback(s, t) ==
    LET k == t.dev
        s1 == [s EXCEPT !.pr[k].fires = Append(@, gameTime)]
        s2 == IF t.target # 0 THEN clearProbe(s1, t.target, k) ELSE s1
    IN IF t.remaining # 0 /\ Len(s1.pr[k].fires) >= t.remaining
       THEN clearProbe(s2, k, k)
       ELSE s2

InitSched ==
    /\ iteration = "server_scripts"
    /\ online = {}
    /\ started = TRUE
    /\ gameTime = 0
    /\ ticking = FALSE
    /\ lastFired = 0
    /\ eventMap = [tp \in Topics |-> "none"]
    /\ player = [p \in Players |-> BasePose]
    /\ lastPlayerInfoMap = [p \in Players |-> NoInfo]
    /\ using = [p \in Players |-> NotUsing]
    /\ cooldownUntil = [p \in Players |-> 0]
    /\ c4Blocks = {}
    /\ toExplosionC4Map = [k \in MapKeys |-> "undefined"]
    /\ timers = <<>>
    /\ nextId = 1
    /\ devices = <<>>
    /\ sess = [p \in Players |-> NoSess]
    /\ intent = NoIntent
    /\ inputs = 0
    /\ told = 0
    /\ probes = <<>>
    /\ checked = "unchecked"
    /\ BusIdle
    /\ AreaIdle

\* timers are registered before the scheduler step of a tick
SchedOpen ==
    ~ticking /\ gameTime <= ArmWindow /\ Len(probes) < MaxProbes

SchedFrame ==
    UNCHANGED <<busVars, areaVars, checked, iteration, online, started, gameTime, ticking,
                lastFired, eventMap, intent, inputs>>

\* scheduleInTicks(d, callback); the callback may clear the timer
\* registered next
ProbeOnce(d, clearsNext) ==
    /\ SchedOpen
    /\ LET k == Len(probes) + 1
           data == [NoData EXCEPT !.dev = k,
                       !.target = IF clearsNext THEN k + 1 ELSE 0]
       IN Commit(scheduleInTicks([Cur EXCEPT !.pr = Append(@, NewProbe(d, 0))],
                                 d, "probe", data))
    /\ SchedFrame

\* scheduleRepeatingInTicks(p, callback)
ProbeRepeating(p, n, clearsNext) ==
    /\ SchedOpen
    /\ LET k == Len(probes) + 1
           data == [NoData EXCEPT !.dev = k, !.remaining = n,
                       !.target = IF clearsNext THEN k + 1 ELSE 0]
       IN Commit(scheduleRepeatingInTicks(
                    [Cur EXCEPT !.pr = Append(@, NewProbe(p, p))],
                    p, "probe", data))
    /\ SchedFrame

FireProbe == Fire("probe", probeCallback(Cur, NextDue))

\* nothing is due any more: the tick ends
SchedAdvance ==
    /\ ~HasDue
    /\ gameTime < MaxSchedTick
    /\ gameTime' = gameTime + 1
    /\ lastFired' = 0
    /\ ticking' = FALSE
    /\ timers' = Purge(timers)
    /\ nextId' = Len(Purge(timers)) + 1
    /\ UNCHANGED <<busVars, areaVars, checked, iteration, online, started, eventMap, player,
                   lastPlayerInfoMap, using, cooldownUntil, c4Blocks,
                   toExplosionC4Map, devices, sess, intent, inputs, told,
                   probes>>

NextSched ==
    \/ \E d \in Delays, c \in BOOLEAN : ProbeOnce(d, c)
    \/ \E p \in Periods, n \in SelfClearAt, c \in BOOLEAN :
          ProbeRepeating(p, n, c)
    \/ FireProbe
    \/ SchedAdvance

SpecSched == InitSched /\ [][NextSched]_vars

\* C9: a one-shot timer scheduled at tick t with delay d fires exactly once,
\* at a tick >= t + d; a repeating timer of period p fires at every tick
\* t + d, t + d + p, t + d + 2p, .. until it is cancelled and never after
C9_TimersFireOnSchedule ==
    \A k \in DOMAIN probes :
        LET r == probes[k]
            first == r.at + r.delay
        IN /\ \A j \in DOMAIN r.fires :
                  r.fires[j] >= first /\ r.fires[j] <= gameTime
           /\ r.period = 0 =>
                /\ Len(r.fires) <= 1
                /\ (r.cancelledAt = -1 /\ gameTime > first)
                       => Len(r.fires) = 1
           /\ r.period > 0 =>
                /\ \A j \in DOMAIN r.fires :
                       r.fires[j] = first + (j - 1) * r.period
                /\ (r.cancelledAt = -1 /\ gameTime > first)
                       => Len(r.fires)
                              >= ((gameTime - 1 - first) \div r.period) + 1
                /\ r.cancelledAt # -1
                       => \A j \in DOMAIN r.fires : r.fires[j] <= r.cancelledAt

\* a repeating timer has fired three times and a one-shot timer once
C9_Witness ==
    \E k, j \in DOMAIN probes :
        /\ probes[k].period > 0 /\ Len(probes[k].fires) >= 3
        /\ probes[j].period = 0 /\ Len(probes[j].fires) = 1

\* C10: a timer cancelled before its due tick never fires; a timer cancelled
\* during its due tick from an earlier-registered callback does not fire
\* later in that batch; a repeating timer that cancels itself inside its own
\* callback never fires again
C10_CancelledNeverFires ==
    \A k \in DOMAIN probes :
        LET r == probes[k]
        IN r.cancelledAt # -1 =>
             /\ Len(r.fires) = r.firesAtCancel
             /\ r.cancelledAt < r.at + r.delay => r.fires = <<>>
             /\ r.cancelledBy # k
                    => \A j \in DOMAIN r.fires : r.fires[j] # r.cancelledAt
             /\ r.cancelledBy = k
                    => /\ r.fires # <<>>
                       /\ r.fires[Len(r.fires)] = r.cancelledAt

\* a repeating timer cleared the timer registered after it in the tick that
\* one was due, then cleared itself, and the clock went on
C10_Witness ==
    \E k, j \in DOMAIN probes :
        /\ probes[j].cancelledBy = k /\ k < j
        /\ probes[j].cancelledAt = probes[j].at + probes[j].delay
        /\ probes[j].fires = <<>>
        /\ probes[k].cancelledBy = k
        /\ gameTime > probes[k].cancelledAt + probes[k].period

----------------------------------------------------------------------------
(* The event bus on its own (createEventBus): register and emit, called in *)
(* any order on the two topics                                             *)

MaxBusCalls == 4

\* the callbacks handed to register, and the events handed to emit
Callbacks == {"first", "second", "silent"}

Events == {"e1", "e2"}

\* what a function without a return statement, or emit without a handler,
\* returns
Undefined == [by |-> "undefined", of |-> "undefined"]

\* callback(event): the value the callback returns
Call(callback, event) ==
    IF callback = "silent" THEN Undefined
    ELSE [by |-> callback, of |-> event]

\* the bus object while call number `now` of emit runs (0: outside emit)
Bus(now) ==
    [eventMap |-> eventMap, invoked |-> invoked, ret |-> Undefined,
     now |-> now]

\* a register that never replaces a handler already bound
registerFirstWins(b, eventName, callback) ==
    IF b.eventMap[eventName] = "none"
    THEN [b EXCEPT !.eventMap[eventName] = callback]
    ELSE b

\* a register that hands the new handler the events it missed
registerReplaying(b, eventName, callback) ==
    LET missed == Cardinality({i \in DOMAIN emits :
                                  /\ emits[i].topic = eventName
                                  /\ emits[i].bound = "none"})
    IN [b EXCEPT !.eventMap[eventName] = callback,
                 !.invoked = IF missed = 0 THEN @
                             ELSE Append(@, [handler |-> callback,
                                             topic |-> eventName,
                                             event |-> "e1",
                                             during |-> b.now])]

\* register: function (eventName, callback)
register(b, eventName, callback) ==
    [b EXCEPT !.eventMap[eventName] = callback]

\* an emit that calls the handler and drops what it returns
emitDiscardingReturn(b, eventName, event) ==
    LET callback == b.eventMap[eventName]
    IN IF callback # "none"
       THEN [b EXCEPT !.invoked = Append(@, [handler |-> callback,
                                             topic |-> eventName,
                                             event |-> event,
                                             during |-> b.now])]
       ELSE b

\* emit: function (eventName, event)
emit(b, eventName, event) ==
    LET callback == b.eventMap[eventName]
    IN IF callback # "none"
       THEN [b EXCEPT !.invoked = Append(@, [handler |-> callback,
                                             topic |-> eventName,
                                             event |-> event,
                                             during |-> b.now]),
                      !.ret = Call(callback, event)]
       ELSE [b EXCEPT !.ret = Undefined]

\* the bus is created empty on a quiet server
InitBus == InitSched

BusOpen == Len(registered) + Len(emits) < MaxBusCalls

BusFrame ==
    UNCHANGED <<areaVars, dataMap, dataLog, iteration, online, started, gameTime, ticking,
                lastFired, player, lastPlayerInfoMap, using, cooldownUntil,
                c4Blocks, toExplosionC4Map, timers, nextId, devices, sess,
                intent, inputs, told, probes, checked>>

\* eventBus.register(tp, h)
Register(tp, h) ==
    /\ BusOpen
    /\ LET b == register(Bus(0), tp, h)
       IN /\ eventMap' = b.eventMap
          /\ invoked' = b.invoked
    /\ registered' = Append(registered, [topic |-> tp, callback |-> h])
    /\ UNCHANGED emits
    /\ BusFrame

\* eventBus.emit(tp, e); the record keeps what the caller got back
Emit(tp, e) ==
    /\ BusOpen
    /\ LET b == emit(Bus(Len(emits) + 1), tp, e)
       IN /\ eventMap' = b.eventMap
          /\ invoked' = b.invoked
          /\ emits' = Append(emits, [topic |-> tp, event |-> e,
                                     ret |-> b.ret,
                                     bound |-> eventMap[tp],
                                     regs |-> Len(registered)])
    /\ UNCHANGED registered
    /\ BusFrame

NextBus ==
    \/ \E tp \in Topics, h \in Callbacks : Register(tp, h)
    \/ \E tp \in Topics, e \in Events : Emit(tp, e)

SpecBus == InitBus /\ [][NextBus]_vars

\* the callback of the last of the first n register calls for topic tp
RECURSIVE LastRegistered(_, _)
LastRegistered(tp, n) ==
    IF n = 0 THEN "none"
    ELSE IF registered[n].topic = tp THEN registered[n].callback
    ELSE LastRegistered(tp, n - 1)

\* the invocations that happened during emit call i
CallsOf(i) == {k \in DOMAIN invoked : invoked[k].during = i}

\* C11: each topic is bound to the handler of the most recent register call
\* for that topic (to none before the first), whatever was registered for
\* the other topic, and every invocation is of the handler that was the
\* most recent one for its topic when the emit was called
C11_LastRegisterWins ==
    /\ \A tp \in Topics : eventMap[tp] = LastRegistered(tp, Len(registered))
    /\ \A k \in DOMAIN invoked :
          /\ invoked[k].during \in DOMAIN emits
          /\ invoked[k].handler =
                LastRegistered(invoked[k].topic, emits[invoked[k].during].regs)

\* a topic was registered twice with different handlers, the other topic
\* once, and an emit after that invoked the second handler
C11_Witness ==
    \E i, j \in DOMAIN registered, k \in DOMAIN invoked :
        /\ i < j
        /\ registered[i].topic = registered[j].topic
        /\ registered[i].callback # registered[j].callback
        /\ invoked[k].topic = registered[j].topic
        /\ invoked[k].handler = registered[j].callback
        /\ emits[invoked[k].during].regs >= j
        /\ \E m \in DOMAIN registered :
              registered[m].topic # registered[j].topic

\* C12: an emit on a topic with a bound handler invoked that handler exactly
\* once, during the emit, with the payload, and returned what the handler
\* returned; an emit on a topic without a handler invoked nothing and
\* returned undefined; no emit changed the registry
C12_EmitCallsOnceAndReturns ==
    /\ [](\A i \in DOMAIN emits :
            LET h == LastRegistered(emits[i].topic, emits[i].regs)
            IN IF h # "none"
               THEN /\ Cardinality(CallsOf(i)) = 1
                    /\ \A k \in CallsOf(i) :
                          /\ invoked[k].handler = h
                          /\ invoked[k].topic = emits[i].topic
                          /\ invoked[k].event = emits[i].event
                    /\ emits[i].ret = Call(h, emits[i].event)
               ELSE /\ CallsOf(i) = {}
                    /\ emits[i].ret = Undefined)
    /\ [][Len(emits') > Len(emits) => eventMap' = eventMap]_vars

\* one emit returned a handler's value, another found no handler
C12_Witness ==
    \E i, j \in DOMAIN emits :
        /\ emits[i].ret # Undefined
        /\ CallsOf(i) # {}
        /\ emits[j].bound = "none"
        /\ CallsOf(j) = {}

\* C13: nothing is queued: the handlers have been invoked as often as emit
\* found a handler bound, each invocation during the emit that carries its
\* topic and payload, in the order of the emits; an emit that found no
\* handler never leads to an invocation, whatever is registered later
C13_NothingQueued ==
    /\ Len(invoked) = Cardinality({i \in DOMAIN emits :
                                      emits[i].bound # "none"})
    /\ \A k \in DOMAIN invoked :
          /\ invoked[k].during \in DOMAIN emits
          /\ emits[invoked[k].during].bound = invoked[k].handler
          /\ emits[invoked[k].during].topic = invoked[k].topic
          /\ emits[invoked[k].during].event = invoked[k].event
          /\ \A m \in DOMAIN invoked :
                m < k => invoked[m].during < invoked[k].during
    /\ \A i \in DOMAIN emits : emits[i].bound = "none" => CallsOf(i) = {}

\* an emit was dropped, a handler was registered for its topic afterwards,
\* and a later emit on that topic reached the handler
C13_Witness ==
    \E i \in DOMAIN emits, j \in DOMAIN registered, k \in DOMAIN invoked :
        /\ emits[i].bound = "none"
        /\ j > emits[i].regs
        /\ registered[j].topic = emits[i].topic
        /\ invoked[k].topic = emits[i].topic
        /\ invoked[k].during > i
        /\ CallsOf(i) = {}

----------------------------------------------------------------------------
(* Area control (server_scripts/areacontrol.js, the iteration that closes *)
(* the file): bounds, presence cache, player events and the commands      *)

MAX_RADIUS == 8192

MaxAreaInputs == 3

\* the block positions a player can be at
AreaPositions ==
    {[x |-> 0, y |-> 64, z |-> 0], [x |-> 2, y |-> 70, z |-> 0],
     [x |-> 0, y |-> 64, z |-> 6]}

\* arguments handed to the commands
Radii == {0, 1, 2, MAX_RADIUS, MAX_RADIUS + 1}

ModeArgs == {"adventure", "spectator", "creative"}

CooldownArgs == {-1, 0}

FrequencyArgs == {-1, 0, 1}

InList(list, name) == \E i \in DOMAIN list : list[i] = name

\* list.indexOf(name), counted from 1 (0: not found)
IndexOf(list, name) ==
    IF InList(list, name)
    THEN CHOOSE i \in DOMAIN list :
            list[i] = name /\ \A j \in 1..(i - 1) : list[j] # name
    ELSE 0

\* list.splice(index, 1)
Splice(list, index) ==
    [i \in 1..(Len(list) - 1) |->
        IF i < index THEN list[i] ELSE list[i + 1]]

\* NBT.toTag(config): a tag has no boolean, a boolean is stored as a byte
toTag(c) ==
    [c EXCEPT !.enabled = IF Truthy(@) THEN "1b" ELSE "0b",
              !.isIncludingOPs = IF Truthy(@) THEN "1b" ELSE "0b",
              !.enableCooldown = IF Truthy(@) THEN "1b" ELSE "0b"]

\* NBT.fromTag(savedData): the bytes come back as numbers
fromTag(t) == t

\* the area-control state a handler works on; out is what the running
\* command has reported so far
Area ==
    [cfg |-> config, bnd |-> bounds, states |-> playerStates,
     cds |-> playerCooldowns, pd |-> persistentData, eff |-> effects,
     tr |-> track, pos |-> blockPos, on |-> online,
     out |-> [status |-> 0, success |-> 0, failure |-> 0]]

sendSuccess(s) == [s EXCEPT !.out.success = @ + 1]

sendFailure(s) == [s EXCEPT !.out.failure = @ + 1]

return(s, status) == [s EXCEPT !.out.status = status]

isEventBus == EventBus # "undefined"

\* bounds that are one block short on every side
updateBoundsShort(s, center, radius) ==
    [s EXCEPT !.bnd = [minX |-> center.x - radius + 1,
                       maxX |-> center.x + radius - 1,
                       minZ |-> center.z - radius + 1,
                       maxZ |-> center.z + radius - 1]]

updateBounds(s, center, radius) ==
    [s EXCEPT !.bnd = [minX |-> center.x - radius,
                       maxX |-> center.x + radius,
                       minZ |-> center.z - radius,
                       maxZ |-> center.z + radius]]

isPositionInArea(bnd, x, z) ==
    /\ x >= bnd.minX
    /\ x <= bnd.maxX
    /\ z >= bnd.minZ
    /\ z <= bnd.maxZ

\* player.hasPermissions(2) || .. (3) || .. (4)
IsOp(p) == p \in ops

isPlayerWhitelisted(s, p) ==
    IF Truthy(s.cfg.isIncludingOPs)
    THEN InList(s.cfg.whitelist, p)
    ELSE InList(s.cfg.whitelist, p) \/ IsOp(p)

\* (history: an enter effect before the end of the first check is counted)
handlePlayerEnterArea(s, p) ==
    [s EXCEPT !.eff[p] =
                  Append(@, [kind |-> "enter",
                             mode |-> IF s.cfg.mode = "adventure"
                                      THEN "adventure" ELSE "spectator"]),
              !.tr[p].enters = IF s.tr[p].checks = 0 THEN @ + 1 ELSE @,
              !.tr[p].last = "enter"]

handlePlayerLeaveArea(s, p) ==
    [s EXCEPT !.eff[p] = Append(@, [kind |-> "leave", mode |-> "survival"]),
              !.tr[p].last = "leave"]

\* history: a membership test was made for p
Tested(s, p) ==
    [s EXCEPT !.tr[p].tests = @ + 1,
              !.tr[p].pos = s.pos[p],
              !.tr[p].bnd = s.bnd]

\* history: a command emptied the cache; it counts when the player has not
\* had a check since the login
Cleared(tr) == [tr EXCEPT !.cleared = @ \/ tr.checks = 0]

\* history: a non-skipped check of p came to its end
Checked(s, p) == [s EXCEPT !.tr[p].checks = @ + 1]

\* a check that acts on the membership alone, whatever the cache holds
checkPlayerAreaStatusEveryTime(s, p) ==
    IF ~Truthy(s.cfg.enabled) \/ isPlayerWhitelisted(s, p) THEN s
    ELSE LET isCurrentlyInArea ==
                 isPositionInArea(s.bnd, s.pos[p].x, s.pos[p].z)
             t == Tested(s, p)
             acted == IF isCurrentlyInArea THEN handlePlayerEnterArea(t, p)
                      ELSE handlePlayerLeaveArea(t, p)
         IN Checked([acted EXCEPT !.states[p] = JsBool(isCurrentlyInArea)],
                    p)

\* a check that acts on a change and leaves the cache as it was
checkPlayerAreaStatusKeepingCache(s, p) ==
    IF ~Truthy(s.cfg.enabled) \/ isPlayerWhitelisted(s, p) THEN s
    ELSE LET isCurrentlyInArea ==
                 isPositionInArea(s.bnd, s.pos[p].x, s.pos[p].z)
             cachedState == s.states[p]
             t == Tested(s, p)
         IN IF cachedState # JsBool(isCurrentlyInArea)
            THEN Checked(IF isCurrentlyInArea
                         THEN handlePlayerEnterArea(t, p)
                         ELSE IF cachedState = "true"
                              THEN handlePlayerLeaveArea(t, p)
                              ELSE t, p)
            ELSE Checked(t, p)

checkPlayerAreaStatus(s, p) ==
    IF ~Truthy(s.cfg.enabled) \/ isPlayerWhitelisted(s, p) THEN s
    ELSE LET isCurrentlyInArea ==
                 isPositionInArea(s.bnd, s.pos[p].x, s.pos[p].z)
             cachedState == s.states[p]
             t == Tested(s, p)
         IN IF cachedState # JsBool(isCurrentlyInArea)
            THEN LET acted ==
                         IF isCurrentlyInArea
                         THEN handlePlayerEnterArea(t, p)
                         ELSE IF cachedState = "true"
                              THEN handlePlayerLeaveArea(t, p)
                              ELSE t
                 IN Checked([acted EXCEPT
                                !.states[p] = JsBool(isCurrentlyInArea)],
                            p)
            ELSE Checked(t, p)

saveConfiguration(s) ==
    [s EXCEPT !.pd = [present |-> TRUE, tag |-> toTag(s.cfg)]]

\* Object.assign(config, loadedConfig), then the bounds
loadConfiguration(s) ==
    IF s.pd.present
    THEN LET loaded == [s EXCEPT !.cfg = fromTag(s.pd.tag)]
         IN updateBounds(loaded, loaded.cfg.center, loaded.cfg.radius)
    ELSE updateBounds(s, s.cfg.center, s.cfg.radius)

\* a login that enters the player without caching the membership
loggedInWithoutCache(s, p) ==
    LET isInArea == isPositionInArea(s.bnd, s.pos[p].x, s.pos[p].z)
        t == [Tested(s, p) EXCEPT
                 !.tr[p].inside0 = JsBool(isInArea),
                 !.tr[p].subject0 = Truthy(s.cfg.enabled)
                                        /\ ~isPlayerWhitelisted(s, p),
                 !.tr[p].cleared = FALSE,
                 !.tr[p].checks = 0,
                 !.tr[p].enters = 0,
                 !.tr[p].last = "none"]
    IN IF isInArea /\ Truthy(s.cfg.enabled)
       THEN handlePlayerEnterArea(t, p)
       ELSE t

\* PlayerEvents.loggedIn
loggedIn(s, p) ==
    LET isInArea == isPositionInArea(s.bnd, s.pos[p].x, s.pos[p].z)
        t == [Tested(s, p) EXCEPT
                 !.states[p] = JsBool(isInArea),
                 !.tr[p].inside0 = JsBool(isInArea),
                 !.tr[p].subject0 = Truthy(s.cfg.enabled)
                                        /\ ~isPlayerWhitelisted(s, p),
                 !.tr[p].cleared = FALSE,
                 !.tr[p].checks = 0,
                 !.tr[p].enters = 0,
                 !.tr[p].last = "none"]
    IN IF isInArea /\ Truthy(s.cfg.enabled)
       THEN handlePlayerEnterArea(t, p)
       ELSE t

\* a logout that leaves the entries of the player behind
loggedOutKeepingState(s, p) == s

\* PlayerEvents.loggedOut
loggedOut(s, p) ==
    [s EXCEPT !.states[p] = "undefined", !.cds[p] = "undefined"]

\* PlayerEvents.tick, with player.age = a
tick(s, p, a) ==
    IF s.cfg.checkFrequency # 0 /\ a % s.cfg.checkFrequency = 0
    THEN checkPlayerAreaStatus(s, p)
    ELSE s

\* toggleCommand: switching off leaves the area for every cached player
\* and empties both maps
toggleCommand(s) ==
    LET t == [s EXCEPT !.cfg.enabled = Not(@)]
        off == [t EXCEPT
                  !.eff = [p \in Players |->
                              IF t.states[p] # "undefined"
                              THEN Append(t.eff[p], [kind |-> "leave",
                                                     mode |-> "survival"])
                              ELSE t.eff[p]],
                  !.states = [p \in Players |-> "undefined"],
                  !.cds = [p \in Players |-> "undefined"],
                  !.tr = [p \in Players |->
                             [Cleared(t.tr[p]) EXCEPT
                                 !.last = IF t.states[p] # "undefined"
                                          THEN "leave" ELSE @]]]
    IN return(sendSuccess(saveConfiguration(
                  IF ~Truthy(t.cfg.enabled) THEN off ELSE t)), 1)

\* statusCommand: eleven lines of status
statusCommand(s) == return([s EXCEPT !.out.success = @ + 11], 1)

\* setCenterCommand; source is a player, or "console"
setCenterCommand(s, source) ==
    IF source = "console" THEN return(sendFailure(s), 0)
    ELSE LET pos == s.pos[source]
             t == [s EXCEPT !.cfg.center =
                                [x |-> pos.x, y |-> pos.y, z |-> pos.z]]
         IN return(sendSuccess(saveConfiguration(
                       updateBounds(t, t.cfg.center, t.cfg.radius))), 1)

\* the command with the limit of 1000 blocks
setRadiusCommandUpTo1000(s, radius) ==
    IF radius < 1 \/ radius > 1000 THEN return(sendFailure(s), 0)
    ELSE LET t == [s EXCEPT !.cfg.radius = radius]
         IN return(sendSuccess(saveConfiguration(
                       updateBounds(t, t.cfg.center, t.cfg.radius))), 1)

setRadiusCommand(s, radius) ==
    IF radius < 1 \/ radius > MAX_RADIUS THEN return(sendFailure(s), 0)
    ELSE LET t == [s EXCEPT !.cfg.radius = radius]
         IN return(sendSuccess(saveConfiguration(
                       updateBounds(t, t.cfg.center, t.cfg.radius))), 1)

setModeCommand(s, mode) ==
    IF mode # "adventure" /\ mode # "spectator"
    THEN return(sendFailure(s), 0)
    ELSE return(sendSuccess(saveConfiguration(
                    [s EXCEPT !.cfg.mode = mode])), 1)

setCooldownCommand(s, cooldown) ==
    IF cooldown < 0 THEN return(sendFailure(s), 0)
    ELSE return(sendSuccess(saveConfiguration(
                    [s EXCEPT !.cfg.cooldownSecs = cooldown])), 1)

setCheckFrequencyCommand(s, frequency) ==
    IF frequency < 0 THEN return(sendFailure(s), 0)
    ELSE return(sendSuccess(saveConfiguration(
                    [s EXCEPT !.cfg.checkFrequency = frequency])), 1)

toggleIncludingOPsCommand(s) ==
    return(sendSuccess(saveConfiguration(
               [s EXCEPT !.cfg.isIncludingOPs = Not(@)])), 1)

toggleCooldownCommand(s) ==
    IF ~isEventBus THEN return(sendFailure(s), 0)
    ELSE return(sendSuccess(saveConfiguration(
                    [s EXCEPT !.cfg.enableCooldown = Not(@)])), 1)

whitelistAddCommand(s, playerName) ==
    IF IndexOf(s.cfg.whitelist, playerName) = 0
    THEN return(sendSuccess(saveConfiguration(
                    [s EXCEPT !.cfg.whitelist = Append(@, playerName)])), 1)
    ELSE return(sendFailure(s), 1)

\* whitelistRemoveCommand; the entries of an online player are deleted
\* under the key onlinePlayer.stringUUID, and found says whether that key
\* is the one the maps use (stringUuid)
whitelistRemoveCommand(s, playerName, found) ==
    LET index == IndexOf(s.cfg.whitelist, playerName)
    IN IF index # 0
       THEN LET t == [s EXCEPT !.cfg.whitelist = Splice(@, index)]
                u == IF playerName \in s.on /\ found
                     THEN [t EXCEPT !.states[playerName] = "undefined",
                                    !.cds[playerName] = "undefined",
                                    !.tr[playerName] = Cleared(@)]
                     ELSE t
            IN return(sendSuccess(saveConfiguration(u)), 1)
       ELSE return(sendFailure(s), 1)

whitelistListCommand(s) ==
    IF Len(s.cfg.whitelist) = 0 THEN return(sendSuccess(s), 1)
    ELSE return([s EXCEPT !.out.success = @ + 1 + Len(s.cfg.whitelist)], 1)

reloadCommand(s) ==
    LET t == loadConfiguration(s)
    IN return(sendSuccess(
                  [t EXCEPT !.states = [p \in Players |-> "undefined"],
                            !.cds = [p \in Players |-> "undefined"],
                            !.tr = [p \in Players |->
                                       Cleared(t.tr[p])]]),
              1)

\* helpCommand: twelve lines, all sent with sendFailure
helpCommand(s) == return([s EXCEPT !.out.failure = @ + 12], 1)

CommitArea(s) ==
    /\ config' = s.cfg
    /\ bounds' = s.bnd
    /\ playerStates' = s.states
    /\ playerCooldowns' = s.cds
    /\ persistentData' = s.pd
    /\ effects' = s.eff
    /\ track' = s.tr

HostFrame ==
    UNCHANGED <<busVars, iteration, gameTime, ticking, lastFired, eventMap,
                player, lastPlayerInfoMap, using, cooldownUntil, c4Blocks,
                toExplosionC4Map, timers, nextId, devices, sess, intent,
                told, probes, checked, ops, EventBus>>

AreaFrame == HostFrame /\ UNCHANGED <<itemsCooldowns, finished>>

\* a configuration saved by an earlier run, with a check on every tick
SavedConfig == [DefaultConfig EXCEPT !.checkFrequency = 1]

\* the script has been loaded: with or without the bus, with or without an
\* operator, with or without a saved configuration
InitArea ==
    /\ iteration = "server_scripts"
    /\ online = {}
    /\ started = FALSE
    /\ gameTime = 0
    /\ ticking = FALSE
    /\ lastFired = 0
    /\ eventMap = [tp \in Topics |-> "none"]
    /\ player = [p \in Players |-> BasePose]
    /\ lastPlayerInfoMap = [p \in Players |-> NoInfo]
    /\ using = [p \in Players |-> NotUsing]
    /\ cooldownUntil = [p \in Players |-> 0]
    /\ c4Blocks = {}
    /\ toExplosionC4Map = [k \in MapKeys |-> "undefined"]
    /\ timers = <<>>
    /\ nextId = 1
    /\ devices = <<>>
    /\ sess = [p \in Players |-> NoSess]
    /\ intent = NoIntent
    /\ inputs = 0
    /\ told = 0
    /\ probes = <<>>
    /\ checked = "unchecked"
    /\ BusIdle
    /\ EventBus \in {"defined", "undefined"}
    /\ config = [DefaultConfig EXCEPT
                    !.enableCooldown = IF isEventBus THEN @ ELSE "false"]
    /\ bounds = DefaultBounds
    /\ playerStates = [p \in Players |-> "undefined"]
    /\ playerCooldowns = [p \in Players |-> "undefined"]
    /\ persistentData \in {NoBlob,
                           [present |-> TRUE, tag |-> toTag(SavedConfig)]}
    /\ blockPos = [p \in Players |-> [x |-> 0, y |-> 0, z |-> 0]]
    /\ age = [p \in Players |-> 0]
    /\ ops \in {{}, {"bob"}}
    /\ effects = [p \in Players |-> <<>>]
    /\ track = [p \in Players |-> NoTrack]
    /\ reply = NoReply
    /\ itemsCooldowns = NoCooldowns
    /\ finished = NoFinish

\* ServerEvents.loaded
ServerLoaded ==
    /\ ~started
    /\ started' = TRUE
    /\ CommitArea(loadConfiguration(Area))
    /\ UNCHANGED <<online, blockPos, age, reply, inputs>>
    /\ AreaFrame

AreaOpen == started /\ inputs < MaxAreaInputs

\* the player joins at pos: PlayerEvents.loggedIn
Login(p, pos) ==
    /\ AreaOpen
    /\ p \notin online
    /\ online' = online \cup {p}
    /\ blockPos' = [blockPos EXCEPT ![p] = pos]
    /\ age' = [age EXCEPT ![p] = 0]
    /\ CommitArea(loggedIn([Area EXCEPT !.pos[p] = pos,
                                        !.on = online \cup {p}], p))
    /\ inputs' = inputs + 1
    /\ UNCHANGED <<started, reply>>
    /\ AreaFrame

\* the player quits: PlayerEvents.loggedOut
Logout(p) ==
    /\ AreaOpen
    /\ p \in online
    /\ online' = online \ {p}
    /\ CommitArea(loggedOut(Area, p))
    /\ inputs' = inputs + 1
    /\ UNCHANGED <<started, blockPos, age, reply>>
    /\ AreaFrame

\* the player walks to pos; no handler runs
MoveTo(p, pos) ==
    /\ AreaOpen
    /\ p \in online
    /\ pos # blockPos[p]
    /\ blockPos' = [blockPos EXCEPT ![p] = pos]
    /\ inputs' = inputs + 1
    /\ UNCHANGED <<config, bounds, playerStates, playerCooldowns,
                   persistentData, age, effects, track, reply, started,
                   online>>
    /\ AreaFrame

\* PlayerEvents.tick of an online player
PlayerTick(p) ==
    /\ AreaOpen
    /\ p \in online
    /\ age' = [age EXCEPT ![p] = @ + 1]
    /\ CommitArea(tick(Area, p, age[p] + 1))
    /\ inputs' = inputs + 1
    /\ UNCHANGED <<started, online, blockPos, reply>>
    /\ AreaFrame

\* /areacontrol <cmd> <arg> ran and left the state s
Command(cmd, arg, s) ==
    /\ AreaOpen
    /\ CommitArea(s)
    /\ reply' = [n |-> reply.n + 1, cmd |-> cmd, arg |-> arg,
                 status |-> s.out.status, success |-> s.out.success,
                 failure |-> s.out.failure]
    /\ inputs' = inputs + 1
    /\ UNCHANGED <<started, online, blockPos, age>>
    /\ AreaFrame

\* who can run a command: the console, or an operator who is online
Sources == {"console"} \cup (online \cap ops)

\* ServerEvents.loaded, the player events, and the subcommands of
\* /areacontrol as the command registry dispatches them
NextArea ==
    \/ ServerLoaded
    \/ \E p \in Players, pos \in AreaPositions : Login(p, pos)
    \/ \E p \in Players : Logout(p)
    \/ \E p \in Players, pos \in AreaPositions : MoveTo(p, pos)
    \/ \E p \in Players : PlayerTick(p)
    \/ Command("status", "none", statusCommand(Area))
    \/ Command("toggle", "none", toggleCommand(Area))
    \/ \E source \in Sources :
          Command("setcenter", source, setCenterCommand(Area, source))
    \/ \E radius \in Radii :
          Command("setradius", radius, setRadiusCommand(Area, radius))
    \/ \E mode \in ModeArgs :
          Command("setmode", mode, setModeCommand(Area, mode))
    \/ \E cooldown \in CooldownArgs :
          Command("setcooldown", cooldown,
                  setCooldownCommand(Area, cooldown))
    \/ \E frequency \in FrequencyArgs :
          Command("setcheckFrequency", frequency,
                  setCheckFrequencyCommand(Area, frequency))
    \/ Command("toggleIncludingOPs", "none",
               toggleIncludingOPsCommand(Area))
    \/ Command("toggleCooldown", "none", toggleCooldownCommand(Area))
    \/ \E playerName \in Players :
          Command("whitelist add", playerName,
                  whitelistAddCommand(Area, playerName))
    \/ \E playerName \in Players, found \in BOOLEAN :
          Command("whitelist remove", playerName,
                  whitelistRemoveCommand(Area, playerName, found))
    \/ Command("whitelist list", "none", whitelistListCommand(Area))
    \/ Command("reload", "none", reloadCommand(Area))
    \/ Command("help", "none", helpCommand(Area))

SpecArea == InitArea /\ [][NextArea]_vars

\* the membership of the player's position under the bounds in force
Fresh(p) == JsBool(isPositionInArea(bounds, blockPos[p].x, blockPos[p].z))

\* the step is a PlayerEvents.tick of p
IsTickOf(p) == p \in online /\ age'[p] # age[p]

\* the step is a tick of p whose presence check was not skipped
IsCheckOf(p) == IsTickOf(p) /\ track'[p].tests # track[p].tests

\* C14: once the bounds have been computed from the configured center and
\* radius, the center is inside, the point radius + 1 east of it is not,
\* and membership is the inclusive four-comparison test on x and z around
\* the center, on both sides of each edge and for any height
C14_BoundsContain ==
    started =>
        LET c == config.center
            r == config.radius
        IN /\ isPositionInArea(bounds, c.x, c.z)
           /\ ~isPositionInArea(bounds, c.x + r + 1, c.z)
           /\ \A x \in {c.x - r - 1, c.x - r, c.x, c.x + r, c.x + r + 1},
                 z \in {c.z - r - 1, c.z - r, c.z, c.z + r, c.z + r + 1} :
                 isPositionInArea(bounds, x, z)
                     <=> /\ c.x - r <= x
                         /\ x <= c.x + r
                         /\ c.z - r <= z
                         /\ z <= c.z + r

\* the center was moved off the origin and the radius was then set
C14_Witness ==
    /\ started
    /\ config.center.x = 2
    /\ reply.cmd = "setradius"
    /\ reply.status = 1
    /\ config.radius # DefaultConfig.radius

C16_EdgeTriggered ==
    [][\A p \in Players :
          IsTickOf(p) =>
              /\ playerStates[p] = Fresh(p)
                    => UNCHANGED <<effects, playerStates>>
              /\ effects' # effects => playerStates[p] # Fresh(p)]_vars

\* a player logged in inside, stayed, and had two checks: one enter effect
C16_Witness ==
    \E p \in Players :
        /\ track[p].inside0 = "true"
        /\ track[p].checks >= 2
        /\ playerStates[p] = "true"
        /\ effects[p] = <<[kind |-> "enter", mode |-> "adventure"]>>

\* C17: a cached presence value is the membership of the position the
\* player had at the most recent login or non-skipped check, under the
\* bounds in force then
C17_CacheIsLastTest ==
    \A p \in Players :
        playerStates[p] # "undefined"
            => /\ track[p].tests > 0
               /\ playerStates[p] =
                     JsBool(isPositionInArea(track[p].bnd, track[p].pos.x,
                                             track[p].pos.z))

\* a player was checked after the login, and the cached value is no longer
\* the membership of the player's present position
C17_Witness ==
    \E p \in online :
        /\ track[p].checks >= 1
        /\ playerStates[p] # "undefined"
        /\ playerStates[p] # Fresh(p)

\* C18: neither the presence cache nor the cooldown map holds an entry for
\* a player who is not online
C18_MapsHoldOnlinePlayers ==
    \A p \in Players \ online :
        /\ playerStates[p] = "undefined"
        /\ playerCooldowns[p] = "undefined"

\* a player who had a cache entry has logged out, another is still cached
C18_Witness ==
    \E p \in Players \ online, q \in online :
        /\ track[p].tests > 0
        /\ playerStates[q] # "undefined"

\* C19: setradius with 1 <= r <= 8192 returns 1, sets the radius, computes
\* the bounds from the center and r and saves the configuration; with any
\* other r it returns 0 and leaves configuration, bounds, presence cache
\* and the saved configuration as they are
C19_SetRadius ==
    [][(reply'.n # reply.n /\ reply'.cmd = "setradius") =>
          LET r == reply'.arg
          IN IF 1 <= r /\ r <= 8192
             THEN /\ reply'.status = 1
                  /\ config' = [config EXCEPT !.radius = r]
                  /\ bounds' = [minX |-> config.center.x - r,
                                maxX |-> config.center.x + r,
                                minZ |-> config.center.z - r,
                                maxZ |-> config.center.z + r]
                  /\ persistentData' = [present |-> TRUE,
                                        tag |-> toTag(config')]
                  /\ UNCHANGED playerStates
             ELSE /\ reply'.status = 0
                  /\ UNCHANGED <<config, bounds, playerStates,
                                 persistentData>>]_vars

\* setradius 8192 was accepted
C19_Witness ==
    /\ reply.cmd = "setradius"
    /\ reply.arg = 8192
    /\ reply.status = 1
    /\ bounds.maxX - bounds.minX = 2 * 8192
    /\ persistentData.present

\* C20: a command returns 1 exactly when it reported success text, and 0
\* exactly when it reported failure text
C20_StatusMatchesText ==
    reply.n > 0 =>
        /\ reply.status = 1 <=> (reply.success > 0 /\ reply.failure = 0)
        /\ reply.status = 0 <=> (reply.failure > 0 /\ reply.success = 0)

\* C21: no step invokes an enter or leave side effect for a player who is
\* protected when the step is taken (on the whitelist, or an operator while
\* isIncludingOPs is false): not a login, not a check, not a command
C21_ProtectedNeverAffected ==
    [][\A p \in Players :
          isPlayerWhitelisted(Area, p) => effects'[p] = effects[p]]_vars

----------------------------------------------------------------------------
(* The data bus on its own (startup_scripts/DataBus.js): export, import,  *)
(* hasExport and listExports, called in any order                         *)

MaxDataCalls == 4

\* the names and values handed to the data bus
ExportNames == {"toExplosionC4Map", "lastPlayerInfoMap"}

ExportValues == {"v1", "v2"}

\* dataMap.has(name)
has(m, name) == \E i \in DOMAIN m : m[i].name = name

\* dataMap.get(name), for a name the map has
get(m, name) == m[CHOOSE i \in DOMAIN m : m[i].name = name].value

\* dataMap.set(name, value): a new key goes to the end, a known key keeps
\* its place and takes the value
set(m, name, value) ==
    IF has(m, name)
    THEN [i \in DOMAIN m |->
             IF m[i].name = name THEN [name |-> name, value |-> value]
             ELSE m[i]]
    ELSE Append(m, [name |-> name, value |-> value])

\* what a call hands back: the map it leaves, whether it threw, and the
\* value, boolean or list it returned
Back(m, threw, value, bool, list) ==
    [map |-> m, threw |-> threw, value |-> value, bool |-> bool,
     list |-> list]

\* an export that always adds an entry
exportAppending(m, name, value) ==
    Back(Append(m, [name |-> name, value |-> value]), FALSE, "undefined",
         FALSE, <<>>)

\* export: function (name, value)
export(m, name, value) ==
    Back(set(m, name, value), FALSE, "undefined", FALSE, <<>>)

\* an import that hands back undefined for a name it does not know
importWithoutThrow(m, name) ==
    IF ~has(m, name) THEN Back(m, FALSE, "undefined", FALSE, <<>>)
    ELSE Back(m, FALSE, get(m, name), FALSE, <<>>)

\* import: function (name)
import(m, name) ==
    IF ~has(m, name) THEN Back(m, TRUE, "undefined", FALSE, <<>>)
    ELSE Back(m, FALSE, get(m, name), FALSE, <<>>)

\* hasExport: function (name)
hasExport(m, name) == Back(m, FALSE, "undefined", has(m, name), <<>>)

\* listExports: function (): Array.from(dataMap.keys())
listExports(m) ==
    Back(m, FALSE, "undefined", FALSE, [i \in DOMAIN m |-> m[i].name])

\* global["dataBus"] = createDataBus() on a quiet server
InitData == InitSched

DataFrame ==
    UNCHANGED <<areaVars, invoked, emits, registered, iteration, online,
                started, gameTime, ticking, lastFired, eventMap, player,
                lastPlayerInfoMap, using, cooldownUntil, c4Blocks,
                toExplosionC4Map, timers, nextId, devices, sess, intent,
                inputs, told, probes, checked>>

\* one call of the data bus; the record keeps what the caller got back
DataCall(op, name, value, back) ==
    /\ Len(dataLog) < MaxDataCalls
    /\ dataMap' = back.map
    /\ dataLog' = Append(dataLog, [op |-> op, name |-> name, value |-> value,
                                   threw |-> back.threw, ret |-> back.value,
                                   bool |-> back.bool, list |-> back.list])
    /\ DataFrame

NextData ==
    \/ \E name \in ExportNames, value \in ExportValues :
          DataCall("export", name, value, export(dataMap, name, value))
    \/ \E name \in ExportNames :
          DataCall("import", name, "none", import(dataMap, name))
    \/ \E name \in ExportNames :
          DataCall("hasExport", name, "none", hasExport(dataMap, name))
    \/ DataCall("listExports", "none", "none", listExports(dataMap))

SpecData == InitData /\ [][NextData]_vars

\* the value of the last export of name among the first n calls ("none":
\* the name was not exported)
RECURSIVE LastExported(_, _)
LastExported(name, n) ==
    IF n = 0 THEN "none"
    ELSE IF dataLog[n].op = "export" /\ dataLog[n].name = name
         THEN dataLog[n].value
         ELSE LastExported(name, n - 1)

\* how often name occurs in list
Count(list, name) == Cardinality({i \in DOMAIN list : list[i] = name})

\* C22: whatever was called so far, import(name) returns the value of the
\* most recent export(name, value), hasExport(name) is true exactly for the
\* names that were exported, and listExports() holds each exported name
\* once and no other name; and every import, hasExport and listExports
\* call made so far answered like that when it was made
C22_ImportReturnsLastExport ==
    /\ \A name \in ExportNames :
          LET last == LastExported(name, Len(dataLog))
          IN /\ hasExport(dataMap, name).bool <=> last # "none"
             /\ last # "none" =>
                   /\ ~import(dataMap, name).threw
                   /\ import(dataMap, name).value = last
             /\ Count(listExports(dataMap).list, name) =
                   IF last # "none" THEN 1 ELSE 0
    /\ \A n \in DOMAIN dataLog :
          LET c == dataLog[n]
          IN /\ (c.op = "import" /\ LastExported(c.name, n) # "none")
                   => ~c.threw /\ c.ret = LastExported(c.name, n)
             /\ c.op = "hasExport"
                   => (c.bool <=> LastExported(c.name, n) # "none")
             /\ c.op = "listExports"
                   => \A name \in ExportNames :
                         Count(c.list, name) =
                            IF LastExported(name, n) # "none" THEN 1 ELSE 0

\* a name was exported twice with different values, the other name once,
\* and an import after that returned the second value
C22_Witness ==
    \E i, j, k \in DOMAIN dataLog :
        /\ i < j
        /\ j < k
        /\ dataLog[i].op = "export"
        /\ dataLog[j].op = "export"
        /\ dataLog[i].name = dataLog[j].name
        /\ dataLog[i].value # dataLog[j].value
        /\ dataLog[k].op = "import"
        /\ dataLog[k].name = dataLog[j].name
        /\ dataLog[k].ret = dataLog[j].value

\* C23: an import of a name that has not been exported throws and returns
\* nothing, and no import changes the exports: hasExport of that name is
\* false afterwards as before
C23_ImportOfUnknownThrows ==
    /\ [](\A n \in DOMAIN dataLog :
            (dataLog[n].op = "import" /\ LastExported(dataLog[n].name, n)
                                             = "none")
                => dataLog[n].threw /\ dataLog[n].ret = "undefined")
    /\ [][\A name \in ExportNames :
            (/\ Len(dataLog') > Len(dataLog)
             /\ dataLog'[Len(dataLog')].op = "import"
             /\ dataLog'[Len(dataLog')].name = name)
                => /\ dataMap' = dataMap
                   /\ hasExport(dataMap', name).bool
                         = hasExport(dataMap, name).bool]_vars

\* an import threw, and hasExport of that name answered false afterwards
C23_Witness ==
    \E i, j \in DOMAIN dataLog :
        /\ i < j
        /\ dataLog[i].op = "import"
        /\ dataLog[i].threw
        /\ dataLog[j].op = "hasExport"
        /\ dataLog[j].name = dataLog[i].name
        /\ ~dataLog[j].bool

----------------------------------------------------------------------------
(* Devices after placement: defusal, detonation, what is left behind *)

\* C24: after a placed device is defused (its block was broken) its timers
\* are inert: no step adds a countdown broadcast or an explosion for it, so
\* a defused device never counts as detonated; and the neutralized
\* notification has been sent once per defused device
C24_DefusedTimersInert ==
    /\ [](told = Cardinality({i \in DOMAIN devices : devices[i].broken}))
    /\ [][\A i \in DOMAIN devices :
            devices[i].broken
                => /\ devices'[i].bc = devices[i].bc
                   /\ devices'[i].nExpl = devices[i].nExpl]_vars

\* no timer of device i is registered any more
Settled(i) ==
    \A k \in DOMAIN timers : timers[k].dev = i => ~IsLive(timers[k])

\* C25: once a device has detonated, or was defused and its timers have
\* dealt with the defusal, no timer of the device is registered and the
\* explosion record has no entry for its position, as before the placement
C25_NothingLeftBehind ==
    \A i \in DOMAIN devices :
        (devices[i].nExpl > 0 \/ (devices[i].broken /\ Settled(i)))
            => /\ Settled(i)
               /\ toExplosionC4Map[devices[i].pos] = "undefined"

\* C26: a placed device that is never removed explodes exactly once,
\* C4_EXPLOSION_TIME ticks after its placement, at the block position
\* recorded at placement (the feet of the player then) and with the power
\* of the activation event, wherever the player has gone since
C26_ExplodesOnceAtRecordedPlace ==
    \A i \in DOMAIN devices :
        ~devices[i].removed
            => /\ devices[i].nExpl <= 1
               /\ devices[i].nExpl = 1
                      => /\ devices[i].explodedAfter = C4_EXPLOSION_TIME
                         /\ devices[i].explodedAt = devices[i].pos
                         /\ devices[i].explodedWith = devices[i].power
                         /\ devices[i].power = C4_EXPLOSION_POWER
               /\ gameTime > devices[i].placedAt + C4_EXPLOSION_TIME
                      => devices[i].nExpl = 1

\* a device exploded after its owner had walked to another block
C26_Witness ==
    \E i \in DOMAIN devices :
        /\ ~devices[i].removed
        /\ devices[i].nExpl = 1
        /\ devices[i].ownerMoved
        /\ Feet(player[devices[i].owner]) # devices[i].pos

----------------------------------------------------------------------------
(* Sessions: the snapshot, unavailable collaborators, the priming timer *)

\* the step is a re-validation check of a session of player p
IsRevalidationOf(p) ==
    /\ lastFired' # lastFired
    /\ HasDue
    /\ NextDue.kind = "revalidate"
    /\ NextDue.owner = p
    /\ lastPlayerInfoMap[p].defined

\* C27: while a player has a snapshot it is the one captured when the
\* session was armed: no step modifies or replaces a stored snapshot (a
\* step can only delete it), and every re-validation check passes exactly
\* if the player still matches the values captured at arming start
C27_SnapshotImmutable ==
    /\ [](\A p \in Players :
            lastPlayerInfoMap[p].defined
                => lastPlayerInfoMap[p] = sess[p].snap)
    /\ [][\A p \in Players :
            /\ (lastPlayerInfoMap[p].defined /\ lastPlayerInfoMap'[p].defined)
                  => lastPlayerInfoMap'[p] = lastPlayerInfoMap[p]
            /\ IsRevalidationOf(p)
                  => ((lastPlayerInfoMap'[p].defined
                          \/ Len(devices') > Len(devices))
                      <=> shouldActivateC4(player[p].item, c4Blocks,
                                           player[p], sess[p].snap))]_vars

\* a session whose player has shifted within the tolerance since the
\* capture and has passed a check since
C27_Witness ==
    \E p \in Players :
        /\ sess[p].state = "arming"
        /\ sess[p].checks >= 1
        /\ sess[p].fails = 0
        /\ lastPlayerInfoMap[p].defined
        /\ player[p].pos # lastPlayerInfoMap[p].pos

\* ServerStartedEvent / ServerEvents.loaded when global["eventBus"] is not
\* there: the priming timer is scheduled, no handler is bound
ServerStartedWithoutBus ==
    /\ ~started
    /\ started' = TRUE
    /\ Commit(scheduleInTicks(Cur, BOOTSTRAP_DELAY, "bootstrap", NoData))
    /\ UNCHANGED <<busVars, areaVars, checked, iteration, online, gameTime,
                   ticking, lastFired, intent, inputs, eventMap>>

\* the program when the bus may be missing at server start
NextUnbound ==
    \/ ServerStartedWithoutBus
    \/ Next

SpecUnbound == Init /\ [][NextUnbound]_vars

\* C28: an arm-intent that cannot proceed because no handler is bound for
\* C4UseStarted leaves no snapshot for the player, so that the player's next
\* arm-intent is not rejected as a session that already exists
C28_AbandonedLeavesNoSnapshot ==
    [][\A p \in Players :
          (IsArmIntentOf(p) /\ eventMap["C4UseStarted"] = "none")
              => ~lastPlayerInfoMap'[p].defined]_vars

SessionTimerKinds ==
    {"revalidate", "countdown", "detonate", "broadcast", "explode"}

\* C29: the step that binds the arm-intent and placement handlers on the bus
\* has scheduled the priming timer, of delay BOOTSTRAP_DELAY, as the first
\* timer of the server; a session timer is registered only with both
\* handlers bound, hence after the priming timer was scheduled
C29_PrimingTimerFirst ==
    /\ [](\A k \in DOMAIN timers :
            timers[k].kind \in SessionTimerKinds
                => /\ started
                   /\ \A tp \in Topics : eventMap[tp] # "none")
    /\ [][eventMap' # eventMap
            => /\ timers = <<>>
               /\ Len(timers') = 1
               /\ timers'[1].kind = "bootstrap"
               /\ timers'[1].due = gameTime + BOOTSTRAP_DELAY]_vars

\* the priming timer and a session timer are registered, the priming
\* timer first
C29_Witness ==
    /\ Len(timers) >= 2
    /\ timers[1].kind = "bootstrap"
    /\ ~timers[1].cancelled
    /\ timers[2].kind \in SessionTimerKinds
    /\ timers[1].id < timers[2].id

----------------------------------------------------------------------------
(* Area control over unbounded time: the host ticks every online player on  *)
(* every server tick, for ever                                              *)

\* player.age matters to the tick handler through age % checkFrequency
\* alone: it is followed modulo the default interval, which every positive
\* interval drawn divides
AgeCycle == DefaultConfig.checkFrequency

\* PlayerEvents.tick of an online player, not counted as an input (the
\* history of checks is not advanced)
PlayerTickLive(p) ==
    /\ started
    /\ p \in online
    /\ age' = [age EXCEPT ![p] = (@ + 1) % AgeCycle]
    /\ CommitArea([tick(Area, p, age[p] + 1) EXCEPT !.tr = track])
    /\ UNCHANGED <<started, online, blockPos, reply, inputs>>
    /\ AreaFrame

\* one player joins and walks about, the interval is set, time passes
NextAreaLive ==
    \/ ServerLoaded
    \/ \E pos \in AreaPositions : Login("alice", pos)
    \/ \E p \in Players, pos \in AreaPositions : MoveTo(p, pos)
    \/ \E p \in Players : PlayerTickLive(p)
    \/ \E frequency \in FrequencyArgs :
          Command("setcheckFrequency", frequency,
                  setCheckFrequencyCommand(Area, frequency))

\* the host never stops ticking a player who is online
SpecAreaLive ==
    /\ InitArea
    /\ [][NextAreaLive]_vars
    /\ \A p \in Players : WF_vars(PlayerTickLive(p))

\* p is online and subject to area control, and stands on the other side
\* of the boundary than the cache says
Crossed(p) ==
    /\ p \in online
    /\ Truthy(config.enabled)
    /\ ~isPlayerWhitelisted(Area, p)
    /\ playerStates[p] # Fresh(p)

\* C30: whatever interval set-check-interval has accepted (0 included), a
\* player subject to area control who has crossed the boundary does not
\* stay there unnoticed for ever: a presence check eventually sees the
\* change (and invokes the enter or leave side effect), unless the player
\* goes back first
C30_ChecksKeepRunning ==
    \A p \in Players : Crossed(p) ~> ~Crossed(p)

----------------------------------------------------------------------------
(* Sessions under release and re-arm; devices sharing a block position *)

\* the re-validation timers of player p that are registered and not spent
RevalidationTimers(p) ==
    {k \in DOMAIN timers :
        /\ timers[k].kind = "revalidate"
        /\ timers[k].owner = p
        /\ IsLive(timers[k])}

\* C31: at most one re-validation timer is active per player in every
\* reachable state: the timer of a session that ended by a release or a
\* failed finish does not live on beside the timer of the player's next
\* session
C31_OneRevalidationTimer ==
    \A p \in Players : Cardinality(RevalidationTimers(p)) <= 1

\* C32: a device is placed for a player only for a session that is still
\* arming, and no earlier than C4_USE_TIME ticks after the player's most
\* recent accepted arm-intent, whatever releases, further arm-intents and
\* timer firings came in between
C32_NoEarlyPlacement ==
    /\ \A p \in Players :
          sess[p].placed >= 1 => sess[p].placedAfter >= C4_USE_TIME
    /\ \A i \in DOMAIN devices : devices[i].sessState = "arming"

\* the part_000 iteration with both players online
InitShared ==
    /\ Init
    /\ iteration = "server_scripts"
    /\ online = Players

\* BlockEvents.broken for a kubejs:c4 block, whoever breaks it (not counted
\* among the players' inputs)
BlockBrokenByAnyone(pos) ==
    /\ started
    /\ ~ticking
    /\ pos \in c4Blocks
    /\ Commit(blockBroken(RemoveBlock(Cur, pos), pos))
    /\ UNCHANGED <<busVars, areaVars, checked, iteration, online, started,
                   gameTime, ticking, lastFired, eventMap, intent, inputs>>

NextShared ==
    \/ ServerStarted
    \/ \E p \in online : ItemUse(p)
    \/ \E p \in online : KeyClick(p)
    \/ \E p \in online : HostRelease(p)
    \/ \E p \in online, pose \in MovePoses : Move(p, pose)
    \/ \E pos \in MapKeys : BlockBrokenByAnyone(pos)
    \/ FireBootstrap
    \/ FireRevalidate
    \/ FireCountdown
    \/ FireDetonate
    \/ AdvanceTick

SpecShared == InitShared /\ [][NextShared]_vars

\* the explosions invoked so far for the first n devices
RECURSIVE Explosions(_)
Explosions(n) ==
    IF n = 0 THEN 0 ELSE devices[n].nExpl + Explosions(n - 1)

\* C33: a defusal is permanent: the explosions invoked never outnumber the
\* placed devices that were not defused, and no step adds a countdown
\* broadcast for a defused device, also when another device has been placed
\* at the same block position since
C33_DefusalPermanent ==
    /\ [](Explosions(Len(devices))
             <= Cardinality({i \in DOMAIN devices : ~devices[i].broken}))
    /\ [][\A i \in DOMAIN devices :
            devices[i].broken => devices'[i].bc = devices[i].bc]_vars

\* the step fires a re-validation timer, which cancels itself in it
IsSelfCancel ==
    /\ lastFired' # lastFired
    /\ HasDue
    /\ NextDue.kind = "revalidate"
    /\ \E k \in DOMAIN timers' :
          timers'[k].id = NextDue.id /\ timers'[k].cancelled

----------------------------------------------------------------------------
(* Area control: the order of the side effects, the cache, the bounds *)

\* the last side effect p received since the login, before this step
LastEffect(p) == IF p \in online THEN track[p].last ELSE "none"

\* C35: for each player the enter and leave side effects alternate,
\* starting with enter, whatever logins, checks and commands occur: a step
\* invokes an enter for a player only if the player's last side effect
\* since the login is not an enter, and a leave only if it is an enter and
\* the player is cached as inside
C35_EffectsAlternate ==
    [][\A p \in Players :
          effects'[p] # effects[p]
              => /\ Len(effects'[p]) = Len(effects[p]) + 1
                 /\ effects'[p][Len(effects'[p])].kind = "enter"
                        => LastEffect(p) # "enter"
                 /\ effects'[p][Len(effects'[p])].kind = "leave"
                        => /\ LastEffect(p) = "enter"
                           /\ playerStates[p] = "true"]_vars

\* C36: while area control is enabled, an online player subject to it who
\* is cached as inside has been given the enter side effect, and no leave
\* since: nobody is cached as inside without having been switched to the
\* restricted mode
C36_CachedInsideIsRestricted ==
    \A p \in online :
        (/\ Truthy(config.enabled)
         /\ ~isPlayerWhitelisted(Area, p)
         /\ playerStates[p] = "true")
            => track[p].last = "enter"

(* Area control, the iteration that opens server_scripts/areacontrol.js:   *)
(* the configuration is loaded while the script loads, and only under a    *)
(* stored key.  The fields of config that this iteration lacks are carried *)
(* along unread.                                                           *)

\* persistentData.put(CONFIG_FILE, NBT.toTag(config)), only under a key
\* that is there already; str: typeof of the stored value is "string"
saveConfigurationFirst(s) ==
    IF s.pd.present
    THEN [s EXCEPT !.pd = [present |-> TRUE, tag |-> toTag(s.cfg),
                           str |-> FALSE]]
    ELSE s

\* server is Utils.server: "null" while the server is not there yet, and
\* then server.persistentData throws inside the try
loadConfigurationFirst(s, server) ==
    IF server = "null" THEN updateBounds(s, s.cfg.center, s.cfg.radius)
    ELSE IF s.pd.present
         THEN IF s.pd.str
              THEN LET loaded == [s EXCEPT !.cfg = s.pd.tag]
                   IN updateBounds(loaded, loaded.cfg.center,
                                   loaded.cfg.radius)
              ELSE saveConfigurationFirst(
                       updateBounds(s, s.cfg.center, s.cfg.radius))
         ELSE s

setCenterCommandFirst(s, source) ==
    IF source = "console" THEN return(sendFailure(s), 0)
    ELSE LET pos == s.pos[source]
             t == [s EXCEPT !.cfg.center =
                                [x |-> pos.x, y |-> pos.y, z |-> pos.z]]
         IN return(sendSuccess(saveConfigurationFirst(
                       updateBounds(t, t.cfg.center, t.cfg.radius))), 1)

setRadiusCommandFirst(s, radius) ==
    IF radius < 1 \/ radius > 1000 THEN return(sendFailure(s), 0)
    ELSE LET t == [s EXCEPT !.cfg.radius = radius]
         IN return(sendSuccess(saveConfigurationFirst(
                       updateBounds(t, t.cfg.center, t.cfg.radius))), 1)

reloadCommandFirst(s) ==
    return(sendSuccess(loadConfigurationFirst(s, "defined")), 1)

\* the scripts are about to be loaded, at the start of the server or by a
\* reload while it runs: an operator may be online, and the key may hold
\* nothing, a tag, or a string
InitAreaFirst ==
    /\ iteration = "server_scripts"
    /\ online \in {{}, {"bob"}}
    /\ started = FALSE
    /\ gameTime = 0
    /\ ticking = FALSE
    /\ lastFired = 0
    /\ eventMap = [tp \in Topics |-> "none"]
    /\ player = [p \in Players |-> BasePose]
    /\ lastPlayerInfoMap = [p \in Players |-> NoInfo]
    /\ using = [p \in Players |-> NotUsing]
    /\ cooldownUntil = [p \in Players |-> 0]
    /\ c4Blocks = {}
    /\ toExplosionC4Map = [k \in MapKeys |-> "undefined"]
    /\ timers = <<>>
    /\ nextId = 1
    /\ devices = <<>>
    /\ sess = [p \in Players |-> NoSess]
    /\ intent = NoIntent
    /\ inputs = 0
    /\ told = 0
    /\ probes = <<>>
    /\ checked = "unchecked"
    /\ BusIdle
    /\ EventBus = "undefined"
    /\ config = DefaultConfig
    /\ bounds = DefaultBounds
    /\ playerStates = [p \in Players |-> "undefined"]
    /\ playerCooldowns = [p \in Players |-> "undefined"]
    /\ persistentData \in
           {NoBlob,
            [present |-> TRUE, tag |-> toTag(SavedConfig), str |-> FALSE],
            [present |-> TRUE, tag |-> [SavedConfig EXCEPT !.radius = 2],
             str |-> TRUE]}
    /\ blockPos \in [Players -> AreaPositions]
    /\ age = [p \in Players |-> 0]
    /\ ops = {"bob"}
    /\ effects = [p \in Players |-> <<>>]
    /\ track = [p \in Players |-> NoTrack]
    /\ reply = NoReply
    /\ itemsCooldowns = NoCooldowns
    /\ finished = NoFinish

\* initializeAreaControl, as the script loads
ScriptLoadedFirst(server) ==
    /\ ~started
    /\ started' = TRUE
    /\ CommitArea(loadConfigurationFirst(Area, server))
    /\ UNCHANGED <<online, blockPos, age, reply, inputs>>
    /\ AreaFrame

NextAreaFirst ==
    \/ \E server \in {"null", "defined"} : ScriptLoadedFirst(server)
    \/ \E p \in Players, pos \in AreaPositions : MoveTo(p, pos)
    \/ \E source \in Sources :
          Command("setcenter", source, setCenterCommandFirst(Area, source))
    \/ \E radius \in {0, 1, 2, 1000, 1001} :
          Command("setradius", radius, setRadiusCommandFirst(Area, radius))
    \/ Command("reload", "none", reloadCommandFirst(Area))

SpecAreaFirst == InitAreaFirst /\ [][NextAreaFirst]_vars

\* C37: once the configuration has been loaded, and after every command,
\* the cached bounds are the configured center -/+ the configured radius
\* on both axes, with or without a stored configuration
C37_BoundsFollowConfig ==
    started =>
        bounds = [minX |-> config.center.x - config.radius,
                  maxX |-> config.center.x + config.radius,
                  minZ |-> config.center.z - config.radius,
                  maxZ |-> config.center.z + config.radius]

(* Item cooldown (areacontrol.js, the handler registered on the bus for  *)
(* LivingEntityUseItemEvent$Finish)                                       *)

\* the living entities that finish using an item: the players and a mob
Entities == Players \cup {"zombie"}

\* the check with the protection of the whitelist left out
shouldApplyItemCooldownToAnyone(s, p) ==
    IF ~Truthy(s.cfg.enabled) THEN FALSE
    ELSE s.states[p] = "undefined" \/ s.states[p] = "true"

shouldApplyItemCooldown(s, p) ==
    IF ~Truthy(s.cfg.enabled) \/ isPlayerWhitelisted(s, p) THEN FALSE
    ELSE s.states[p] = "undefined" \/ s.states[p] = "true"

\* the handler, on the cooldowns cds of the host: added says whether it
\* called addCooldown.  Utils.server.getPlayer gives null for an entity
\* that is not on the server; isOnCooldown: ticks are left
useItemFinish(s, cds, entity, item) ==
    LET skip == [added |-> FALSE, ticks |-> 0, cds |-> cds]
    IN IF ~Truthy(s.cfg.enableCooldown) THEN skip
       ELSE IF entity \notin Players THEN skip
       ELSE IF entity \notin s.on \/ ~Truthy(s.states[entity]) THEN skip
       ELSE IF shouldApplyItemCooldown(s, entity) /\ ~(cds[entity][item] > 0)
            THEN [added |-> TRUE, ticks |-> s.cfg.cooldownSecs,
                  cds |-> [cds EXCEPT ![entity][item] = s.cfg.cooldownSecs]]
            ELSE skip

\* the bus delivers the event; the handler is registered only when the
\* script found the bus
UseItemFinished(entity, item) ==
    /\ AreaOpen
    /\ isEventBus
    /\ LET r == useItemFinish(Area, itemsCooldowns, entity, item)
       IN /\ itemsCooldowns' = r.cds
          /\ finished' = [n |-> finished.n + 1, entity |-> entity,
                          item |-> item, added |-> r.added,
                          ticks |-> r.ticks]
    /\ inputs' = inputs + 1
    /\ UNCHANGED <<config, bounds, playerStates, playerCooldowns,
                   persistentData, effects, track, started, online,
                   blockPos, age, reply>>
    /\ HostFrame

NextCooldown ==
    \/ NextArea
    \/ \E entity \in Entities, item \in Items : UseItemFinished(entity, item)

SpecCooldown == InitArea /\ [][NextCooldown]_vars

\* the step delivers an item-use-finished event
IsUseItemFinished == finished'.n = finished.n + 1

====
